---------------------------- MODULE Spec2Model ----------------------------
(***************************************************************************)
(* A model of deoxxa/reflectutil's struct tag parser: ParseTagList (the    *)
(* position scanner parseTagPositionList, the name/value extractor, the    *)
(* unquoter and the value/parameter splitter) and ParseTag.                *)
(*                                                                         *)
(* A string is a sequence of bytes, a byte is a one-byte TLA+ string or a  *)
(* name such as "0xC3".  Offsets are the code's 0-based byte offsets: the  *)
(* byte at offset i of s is s[i + 1].  Inputs are valid UTF-8: the range   *)
(* loop reads whole runes, one of them two bytes wide.                     *)
(*                                                                         *)
(* The annotation string is drawn rune by rune as the range loop reads it, *)
(* and the loop's end is the end of the string: whenever the scanner has   *)
(* returned, input is an argument on which the code runs exactly as the    *)
(* behaviour did (after a rejected rune the code reads no further byte).   *)
(***************************************************************************)
EXTENDS Integers, Sequences, FiniteSets, TLC

\* Bounds of the model.
MaxLen == 7          \* bytes of an annotation string given to ParseTagList
MaxValueLen == 8     \* bytes of a tag value given to ParseTag
MaxConcLen == 5      \* bytes of the two annotation strings of two calls in progress
MaxConcValueLen == 2 \* bytes of a tag value when two calls are in progress
MaxFields == 2       \* fields of a struct type given to GetDescription

\* Bytes and runes of the model's alphabet.
SP == " "
COLON == ":"
QUOTE == "\""
BSLASH == "\\"
COMMA == ","
DOLLAR == "$"
LF == "0x0A"
EACUTE == "U+00E9"

ScanRunes == {"a", "b", SP, COLON, QUOTE, BSLASH, COMMA, DOLLAR, LF, EACUTE}

ValueBytes == {"a", "b", COMMA, COLON}

TagNames == {<<"x">>, <<"a", "b">>}

\* The UTF-8 encoding of a rune (Go strings hold bytes; range decodes runes).
RuneBytes(c) == IF c = EACUTE THEN <<"0xC3", "0xA9">> ELSE <<c>>

\* s[lo:hi] of Go: the bytes at offsets lo .. hi-1.
Slice(s, lo, hi) == SubSeq(s, lo + 1, hi)

Letters ==
  {"A","B","C","D","E","F","G","H","I","J","K","L","M","N","O","P","Q","R","S",
   "T","U","V","W","X","Y","Z","a","b","c","d","e","f","g","h","i","j","k","l",
   "m","n","o","p","q","r","s","t","u","v","w","x","y","z"}

Digits == {"0","1","2","3","4","5","6","7","8","9"}

validTagNameCharacter(c) == c \in Letters \/ c \in Digits \/ c = "_"

\* parseTagPositionListState
StateInitial == "Initial"
StateReadingName == "ReadingName"
StateExpectValue == "ExpectValue"
StateReadingValue == "ReadingValue"
StateReadingEscapedCharacter == "ReadingEscapedCharacter"

\* tagPosition{}: the zero value.
ZeroPosition ==
  [nameStart |-> 0, nameEnd |-> 0, colon |-> 0, valueStart |-> 0, valueEnd |-> 0]

\* Errors: kind "none" is a nil error; wrap lists the wrapping contexts, the
\* outermost first; char, pos, state, tag and field are what the messages
\* are formatted with.
NoError ==
  [kind |-> "none", char |-> "", pos |-> 0, state |-> "", tag |-> <<>>, field |-> "",
   wrap |-> <<>>]

UnexpectedCharacterError(ch, at, st) ==
  [kind |-> "char", char |-> ch, pos |-> at, state |-> st, tag |-> <<>>, field |-> "",
   wrap |-> <<"parseTagPositionList">>]

UnexpectedEofError(st) ==
  [kind |-> "eof", char |-> "", pos |-> 0, state |-> st, tag |-> <<>>, field |-> "",
   wrap |-> <<"parseTagPositionList">>]

Wrap(context, e) == [e EXCEPT !.wrap = <<context>> \o @]

\* A slice value: nil, or a (possibly empty) list.
NilList == [nil |-> TRUE, list |-> <<>>]
List(l) == [nil |-> FALSE, list |-> l]

VARIABLES
  call,       \* the public operation this run calls: "ParseTagList" or "ParseTag"
  input,      \* ParseTagList: the annotation string (the bytes read so far and no more)
  pc,         \* the position in the code
  i,          \* parseTagPositionList: the range loop's byte offset
  c,          \* parseTagPositionList: the range loop's rune
  state,      \* parseTagPositionList: state
  current,    \* parseTagPositionList: current
  positions,  \* parseTagPositionList: positions
  dispatches, \* parseTagPositionList: how many times control has reached the label
              \* start (a history of the run; the code keeps no such count)
  scanRet,    \* what parseTagPositionList returned: [positions, err]
  rawTags,    \* ParseTagList: tagPositions.getNamesAndValues(input)
  k,          \* ParseTagList: the number of raw tags the loop has handled
  unquoted,   \* ParseTagList: the unquoted value of each raw tag handled
  tags,       \* ParseTagList: tags
  ret,        \* what ParseTagList returned: [tags, err]
  ptName,     \* ParseTag: name
  ptValue,    \* ParseTag: tagValue
  ptRet,      \* what ParseTag returned: [nil, tag, err]
  other,      \* the locals of a second call that is in progress and not running
  typ,        \* GetDescription: the type of the input, reflect.TypeOf(input)
  gdRet,      \* what GetDescription returned: [called, nil, desc, err]
  gdtRet,     \* what GetDescriptionFromType returned, likewise
  acc         \* the last accessor call on the description: [op, recv, name, value, result]

vars == <<call, input, pc, i, c, state, current, positions, dispatches, scanRet, rawTags, k,
          unquoted, tags, ret, ptName, ptValue, ptRet, other, typ, gdRet, gdtRet, acc>>

scanVars == <<i, c, state, current, positions, dispatches>>
buildVars == <<rawTags, k, unquoted, tags>>
ptVars == <<ptName, ptValue, ptRet>>
descVars == <<typ, gdRet, gdtRet, acc>>

\* The longest annotation string this run reads.
LenBound == IF other.call = "none" THEN MaxLen ELSE MaxConcLen - Len(other.input)

(***************************************************************************)
(* strings.Index, strings.SplitN(s, sep, 2) and strings.Split of the Go    *)
(* standard library, for a one-byte separator.                             *)
(***************************************************************************)
RECURSIVE IndexFrom(_, _, _)
IndexFrom(s, b, at) ==
  IF at >= Len(s) THEN -1
  ELSE IF s[at + 1] = b THEN at
  ELSE IndexFrom(s, b, at + 1)

Index(s, b) == IndexFrom(s, b, 0)

Contains(s, b) == Index(s, b) >= 0

\* Mutant of SplitN2: the split is made at the last separator.
SplitN2Last(s, sep) ==
  IF Index(s, sep) < 0 THEN <<s>>
  ELSE LET at == CHOOSE j \in 0..(Len(s) - 1) :
                   s[j + 1] = sep /\ \A m \in (j + 1)..(Len(s) - 1) : s[m + 1] # sep
       IN <<Slice(s, 0, at), Slice(s, at + 1, Len(s))>>

SplitN2(s, sep) ==
  LET at == Index(s, sep)
  IN IF at < 0 THEN <<s>>
     ELSE <<Slice(s, 0, at), Slice(s, at + 1, Len(s))>>

RECURSIVE Split(_, _)
Split(s, sep) ==
  LET at == Index(s, sep)
  IN IF at < 0 THEN <<s>>
     ELSE <<Slice(s, 0, at)>> \o Split(Slice(s, at + 1, Len(s)), sep)

(***************************************************************************)
(* The value/parameter splitter.                                           *)
(***************************************************************************)
\* Mutant of parseParameterListEntry: strings.Split in place of SplitN, so
\* that what follows a second colon is lost.
parseParameterListEntrySplitAll(e) ==
  LET a == Split(e, COLON)
  IN IF Len(a) >= 2 THEN [name |-> a[1], value |-> a[2]]
     ELSE [name |-> a[1], value |-> <<>>]

\* The Parameter of one non-empty entry: split on the first colon.
parseParameterListEntry(e) ==
  LET a == SplitN2(e, COLON)
  IN IF Len(a) = 2 THEN [name |-> a[1], value |-> a[2]]
     ELSE [name |-> a[1], value |-> <<>>]

\* Mutant of parseParameterListLoop: empty entries are not skipped.
RECURSIVE parseParameterListLoopKeepEmpty(_, _)
parseParameterListLoopKeepEmpty(entries, parameters) ==
  IF entries = <<>> THEN parameters
  ELSE parseParameterListLoopKeepEmpty(Tail(entries),
         Append(parameters, parseParameterListEntry(Head(entries))))

RECURSIVE parseParameterListLoop(_, _)
parseParameterListLoop(entries, parameters) ==
  IF entries = <<>> THEN parameters
  ELSE IF Head(entries) = <<>> THEN parseParameterListLoop(Tail(entries), parameters)
  ELSE parseParameterListLoop(Tail(entries),
         Append(parameters, parseParameterListEntry(Head(entries))))

\* Returns [parameters, err]; the error is always nil.
parseParameterList(in) ==
  [parameters |-> parseParameterListLoop(Split(in, COMMA), <<>>), err |-> NoError]

\* Returns [value, parameters, err].
parseValueAndParameterList(tagValue) ==
  IF tagValue = <<>> THEN [value |-> <<>>, parameters |-> <<>>, err |-> NoError]
  ELSE LET valueAndParameters == SplitN2(tagValue, COMMA)
       IN IF Len(valueAndParameters) = 1
            THEN [value |-> valueAndParameters[1], parameters |-> <<>>, err |-> NoError]
          ELSE IF valueAndParameters[2] = <<>>
            THEN [value |-> valueAndParameters[1], parameters |-> <<>>, err |-> NoError]
          ELSE LET p == parseParameterList(valueAndParameters[2])
               IN IF p.err.kind # "none"
                    THEN [value |-> <<>>, parameters |-> <<>>,
                          err |-> Wrap("parseValueAndParameterList: couldn't get parameters", p.err)]
                    ELSE [value |-> valueAndParameters[1], parameters |-> p.parameters,
                          err |-> NoError]

NoTag == [name |-> <<>>, value |-> <<>>, parameters |-> <<>>]

\* Returns [nil, tag, err]: a nil *Tag with an error, or a Tag and no error.
ParseTag(name, tagValue) ==
  LET r == parseValueAndParameterList(tagValue)
  IN IF r.err.kind # "none"
       THEN [nil |-> TRUE, tag |-> NoTag,
             err |-> Wrap("ParseTag: couldn't get value and parameters", r.err)]
       ELSE [nil |-> FALSE,
             tag |-> [name |-> name, value |-> r.value, parameters |-> r.parameters],
             err |-> NoError]

(***************************************************************************)
(* strconv.Unquote of the Go standard library on a double-quoted string,   *)
(* as tagNameAndValue.unquotedValue calls it.  Escapes that start with a   *)
(* byte outside the model's alphabet (hex, unicode, octal) are not drawn.  *)
(***************************************************************************)
SimpleEscapes ==
  [a |-> "0x07", b |-> "0x08", f |-> "0x0C", n |-> LF, r |-> "0x0D", t |-> "0x09",
   v |-> "0x0B"]

\* strconv.UnquoteChar(s, '"'): [ok, out (bytes), rest].
UnquoteChar(s) ==
  LET ch == s[1]
  IN IF ch = QUOTE THEN [ok |-> FALSE, out |-> <<>>, rest |-> s]
     ELSE IF ch = "0xC3" THEN [ok |-> TRUE, out |-> Slice(s, 0, 2), rest |-> Slice(s, 2, Len(s))]
     ELSE IF ch # BSLASH THEN [ok |-> TRUE, out |-> <<ch>>, rest |-> Tail(s)]
     ELSE IF Len(s) <= 1 THEN [ok |-> FALSE, out |-> <<>>, rest |-> s]
     ELSE LET e == s[2]
              rest == Slice(s, 2, Len(s))
          IN IF e \in DOMAIN SimpleEscapes
               THEN [ok |-> TRUE, out |-> <<SimpleEscapes[e]>>, rest |-> rest]
             ELSE IF e = BSLASH THEN [ok |-> TRUE, out |-> <<BSLASH>>, rest |-> rest]
             ELSE IF e = QUOTE THEN [ok |-> TRUE, out |-> <<QUOTE>>, rest |-> rest]
             ELSE [ok |-> FALSE, out |-> <<>>, rest |-> s]

\* The loop of strconv.unquote: [ok, out, rest], rest starting at the closing quote.
RECURSIVE UnquoteLoop(_, _)
UnquoteLoop(in, buf) ==
  IF ~(Len(in) > 0 /\ in[1] # QUOTE) THEN [ok |-> TRUE, out |-> buf, rest |-> in]
  ELSE LET r == UnquoteChar(in)
       IN IF in[1] = LF \/ ~r.ok THEN [ok |-> FALSE, out |-> <<>>, rest |-> in]
          ELSE UnquoteLoop(r.rest, buf \o r.out)

\* strconv.Unquote: [ok, out].
Unquote(s) ==
  IF Len(s) < 2 \/ s[1] # QUOTE THEN [ok |-> FALSE, out |-> <<>>]
  ELSE LET end == Index(Tail(s), QUOTE)
       IN IF end < 0 THEN [ok |-> FALSE, out |-> <<>>]
          ELSE IF ~Contains(Slice(s, 0, end + 2), BSLASH) /\ ~Contains(Slice(s, 0, end + 2), LF)
            THEN [ok |-> Slice(s, end + 2, Len(s)) = <<>>,
                  out |-> IF Slice(s, end + 2, Len(s)) = <<>> THEN Slice(s, 1, end + 1) ELSE <<>>]
          ELSE LET l == UnquoteLoop(Tail(s), <<>>)
               IN IF ~l.ok \/ ~(Len(l.rest) > 0 /\ l.rest[1] = QUOTE)
                    THEN [ok |-> FALSE, out |-> <<>>]
                  ELSE IF Len(l.rest) > 1 THEN [ok |-> FALSE, out |-> <<>>]
                  ELSE [ok |-> TRUE, out |-> l.out]

UnquoteError ==
  [kind |-> "unquote", char |-> "", pos |-> 0, state |-> "", tag |-> <<>>, field |-> "",
   wrap |-> <<"tagNameAndValue.unquotedValue", "strconv.ErrSyntax">>]

\* Mutant of unquotedValue: the empty value is handed to strconv.Unquote too.
unquotedValueNoEmptyCheck(t) ==
  LET u == Unquote(t.value)
  IN IF ~u.ok THEN [s |-> <<>>, err |-> UnquoteError]
     ELSE [s |-> u.out, err |-> NoError]

\* tagNameAndValue.unquotedValue: [s, err].
unquotedValue(t) ==
  IF t.value = <<>> THEN [s |-> <<>>, err |-> NoError]
  ELSE LET u == Unquote(t.value)
       IN IF ~u.ok THEN [s |-> <<>>, err |-> UnquoteError]
          ELSE [s |-> u.out, err |-> NoError]

(***************************************************************************)
(* The name/value extractor.                                               *)
(***************************************************************************)
getName(t, s) == Slice(s, t.nameStart, t.nameEnd + 1)

\* Mutant of getValue: the slice stops before the closing quote.
getValueExclusive(t, s) ==
  IF t.colon = 0 THEN <<>>
  ELSE Slice(s, t.valueStart, t.valueEnd)

getValue(t, s) ==
  IF t.colon = 0 THEN <<>>
  ELSE Slice(s, t.valueStart, t.valueEnd + 1)

getNameAndValue(t, s) == [name |-> getName(t, s), value |-> getValue(t, s)]

getNamesAndValues(l, s) ==
  IF l.nil THEN NilList
  ELSE List([n \in 1..Len(l.list) |-> getNameAndValue(l.list[n], s)])


(***************************************************************************)
(* The values of the description layer: a reflect.Type, a                  *)
(* *StructDescription with its error, and an accessor call.                *)
(***************************************************************************)
\* A reflect.Type: its Kind(), its Name(), the reflect.VisibleFields of a
\* struct, each with its Name and its Tag, and the Elem() of a pointer (a
\* list of one type).
StructType(name, fields) ==
  [kind |-> "Struct", name |-> name, fields |-> fields, elem |-> <<>>]
PtrTo(t) == [kind |-> "Ptr", name |-> "", fields |-> <<>>, elem |-> <<t>>]
StringType == [kind |-> "String", name |-> "string", fields |-> <<>>, elem |-> <<>>]
NoType == [kind |-> "Invalid", name |-> "", fields |-> <<>>, elem |-> <<>>]

NoDescription == [name |-> "", typ |-> NoType, fields |-> NilList]
NotCalled == [called |-> FALSE, nil |-> TRUE, desc |-> NoDescription, err |-> NoError]
NoAccess == [op |-> "none", recv |-> <<>>, name |-> <<>>, value |-> <<>>, result |-> <<>>]

(***************************************************************************)
(* The state after construction: a call of ParseTagList about to scan its  *)
(* annotation string, or a call of ParseTag with its two arguments.        *)
(***************************************************************************)
RECURSIVE SeqsUpTo(_, _)
SeqsUpTo(S, n) ==
  IF n = 0 THEN {<<>>}
  ELSE LET shorter == SeqsUpTo(S, n - 1)
       IN shorter \cup {Append(s, x) : s \in {q \in shorter : Len(q) = n - 1}, x \in S}

NoScanRet == [positions |-> NilList, err |-> NoError]
NoRet == [tags |-> NilList, err |-> NoError]
NoPtRet == [nil |-> TRUE, tag |-> NoTag, err |-> NoError]

\* The locals of a call of ParseTagList that has not taken a step.
ListFrame ==
  [call |-> "ParseTagList", input |-> <<>>, pc |-> "range", i |-> 0, c |-> "",
   state |-> StateInitial, current |-> ZeroPosition, positions |-> <<>>,
   dispatches |-> 0, scanRet |-> NoScanRet, rawTags |-> <<>>, k |-> 0, unquoted |-> <<>>, tags |-> <<>>,
   ret |-> NoRet, ptName |-> <<>>, ptValue |-> <<>>, ptRet |-> NoPtRet]

\* No second call.
NoCall == [ListFrame EXCEPT !.call = "none", !.pc = "none"]

Init ==
  /\ call \in {"ParseTagList", "ParseTag"}
  /\ input = <<>>
  /\ pc = IF call = "ParseTagList" THEN "range" ELSE "parseTag"
  /\ i = 0
  /\ c = ""
  /\ state = StateInitial
  /\ current = ZeroPosition
  /\ positions = <<>>
  /\ dispatches = 0
  /\ scanRet = NoScanRet
  /\ rawTags = <<>>
  /\ k = 0
  /\ unquoted = <<>>
  /\ tags = <<>>
  /\ ret = NoRet
  /\ IF call = "ParseTag"
       THEN ptName \in TagNames /\ ptValue \in SeqsUpTo(ValueBytes, MaxValueLen)
       ELSE ptName = <<>> /\ ptValue = <<>>
  /\ ptRet = NoPtRet
  /\ other = NoCall
  /\ typ = NoType
  /\ gdRet = NotCalled
  /\ gdtRet = NotCalled
  /\ acc = NoAccess

(***************************************************************************)
(* parseTagPositionList: the range loop.                                   *)
(***************************************************************************)
\* Mutant of NextRune: i counts runes, as a range over []rune(tag) would.
NextRuneRuneIndex ==
  /\ pc = "range"
  /\ \E r \in ScanRunes :
       /\ Len(input) + Len(RuneBytes(r)) <= LenBound
       /\ i' = Cardinality({n \in 1..Len(input) : input[n] # "0xA9"})
       /\ c' = r
       /\ input' = input \o RuneBytes(r)
  /\ pc' = "start"
  /\ dispatches' = dispatches + 1
  /\ UNCHANGED <<call, state, current, positions, scanRet, ret>>
  /\ UNCHANGED buildVars
  /\ UNCHANGED ptVars
  /\ UNCHANGED other
  /\ UNCHANGED descVars

\* for i, c := range tag: the next rune of the string, at its byte offset.
NextRune ==
  /\ pc = "range"
  /\ \E r \in ScanRunes :
       /\ Len(input) + Len(RuneBytes(r)) <= LenBound
       /\ i' = Len(input)
       /\ c' = r
       /\ input' = input \o RuneBytes(r)
  /\ pc' = "start"
  /\ dispatches' = dispatches + 1
  /\ UNCHANGED <<call, state, current, positions, scanRet, ret>>
  /\ UNCHANGED buildVars
  /\ UNCHANGED ptVars
  /\ UNCHANGED other
  /\ UNCHANGED descVars

\* What a step of the switch leaves alone; goto start reaches the label again.
ScanFrame ==
  /\ dispatches' = IF pc' = "start" THEN dispatches + 1 ELSE dispatches
  /\ UNCHANGED <<call, input, i, c, scanRet, ret>>
  /\ UNCHANGED buildVars
  /\ UNCHANGED ptVars
  /\ UNCHANGED other
  /\ UNCHANGED descVars

InitialSpace ==
  /\ pc = "start" /\ state = StateInitial
  /\ c = SP
  /\ pc' = "range"
  /\ UNCHANGED <<state, current, positions>>
  /\ ScanFrame

\* Mutant of InitialNameCharacter: the state is left as it is, and goto
\* start dispatches the same rune in Initial again.
InitialNameCharacterNoState ==
  /\ pc = "start" /\ state = StateInitial
  /\ c # SP /\ validTagNameCharacter(c)
  /\ current' = [current EXCEPT !.nameStart = i]
  /\ pc' = "start"
  /\ UNCHANGED <<state, positions>>
  /\ ScanFrame

\* state and nameStart are set, and goto start dispatches the same rune again.
InitialNameCharacter ==
  /\ pc = "start" /\ state = StateInitial
  /\ c # SP /\ validTagNameCharacter(c)
  /\ state' = StateReadingName
  /\ current' = [current EXCEPT !.nameStart = i]
  /\ pc' = "start"
  /\ UNCHANGED positions
  /\ ScanFrame

ReadingNameCharacter ==
  /\ pc = "start" /\ state = StateReadingName
  /\ validTagNameCharacter(c)
  /\ pc' = "range"
  /\ UNCHANGED <<state, current, positions>>
  /\ ScanFrame

\* Mutant of ReadingNameColon: the offset of the colon is not recorded.
ReadingNameColonNotRecorded ==
  /\ pc = "start" /\ state = StateReadingName
  /\ ~validTagNameCharacter(c) /\ c = COLON
  /\ current' = [current EXCEPT !.nameEnd = i - 1]
  /\ state' = StateExpectValue
  /\ pc' = "range"
  /\ UNCHANGED positions
  /\ ScanFrame

ReadingNameColon ==
  /\ pc = "start" /\ state = StateReadingName
  /\ ~validTagNameCharacter(c) /\ c = COLON
  /\ current' = [current EXCEPT !.nameEnd = i - 1, !.colon = i]
  /\ state' = StateExpectValue
  /\ pc' = "range"
  /\ UNCHANGED positions
  /\ ScanFrame

\* Mutant of ReadingNameSpace: the name is closed at the space, not before it.
ReadingNameSpaceEndAtSpace ==
  /\ pc = "start" /\ state = StateReadingName
  /\ ~validTagNameCharacter(c) /\ c # COLON /\ c = SP
  /\ positions' = Append(positions, [current EXCEPT !.nameEnd = i])
  /\ current' = ZeroPosition
  /\ state' = StateInitial
  /\ pc' = "start"
  /\ ScanFrame

\* The valueless name is emitted, and goto start dispatches the space in Initial.
ReadingNameSpace ==
  /\ pc = "start" /\ state = StateReadingName
  /\ ~validTagNameCharacter(c) /\ c # COLON /\ c = SP
  /\ positions' = Append(positions, [current EXCEPT !.nameEnd = i - 1])
  /\ current' = ZeroPosition
  /\ state' = StateInitial
  /\ pc' = "start"
  /\ ScanFrame

ExpectValueSpace ==
  /\ pc = "start" /\ state = StateExpectValue
  /\ c = SP
  /\ pc' = "range"
  /\ UNCHANGED <<state, current, positions>>
  /\ ScanFrame

\* Mutant of ExpectValueQuote: the value starts after the opening quote.
ExpectValueQuoteContentStart ==
  /\ pc = "start" /\ state = StateExpectValue
  /\ c # SP /\ c = QUOTE
  /\ current' = [current EXCEPT !.valueStart = i + 1]
  /\ state' = StateReadingValue
  /\ pc' = "range"
  /\ UNCHANGED positions
  /\ ScanFrame

ExpectValueQuote ==
  /\ pc = "start" /\ state = StateExpectValue
  /\ c # SP /\ c = QUOTE
  /\ current' = [current EXCEPT !.valueStart = i]
  /\ state' = StateReadingValue
  /\ pc' = "range"
  /\ UNCHANGED positions
  /\ ScanFrame

\* Mutant of ReadingValueQuote: the record is emitted and not reset.
ReadingValueQuoteNoReset ==
  /\ pc = "start" /\ state = StateReadingValue
  /\ c = QUOTE
  /\ positions' = Append(positions, [current EXCEPT !.valueEnd = i])
  /\ current' = [current EXCEPT !.valueEnd = i]
  /\ state' = StateInitial
  /\ pc' = "range"
  /\ ScanFrame

ReadingValueQuote ==
  /\ pc = "start" /\ state = StateReadingValue
  /\ c = QUOTE
  /\ positions' = Append(positions, [current EXCEPT !.valueEnd = i])
  /\ current' = ZeroPosition
  /\ state' = StateInitial
  /\ pc' = "range"
  /\ ScanFrame

ReadingValueBackslash ==
  /\ pc = "start" /\ state = StateReadingValue
  /\ c # QUOTE /\ c = BSLASH
  /\ state' = StateReadingEscapedCharacter
  /\ pc' = "range"
  /\ UNCHANGED <<current, positions>>
  /\ ScanFrame

ReadingValueDefault ==
  /\ pc = "start" /\ state = StateReadingValue
  /\ c # QUOTE /\ c # BSLASH
  /\ pc' = "range"
  /\ UNCHANGED <<state, current, positions>>
  /\ ScanFrame

\* Mutant of ReadingEscapedCharacter: a backslash after a backslash starts
\* another escape.
ReadingEscapedCharacterChained ==
  /\ pc = "start" /\ state = StateReadingEscapedCharacter
  /\ state' = IF c = BSLASH THEN StateReadingEscapedCharacter ELSE StateReadingValue
  /\ pc' = "range"
  /\ UNCHANGED <<current, positions>>
  /\ ScanFrame

ReadingEscapedCharacter ==
  /\ pc = "start" /\ state = StateReadingEscapedCharacter
  /\ state' = StateReadingValue
  /\ pc' = "range"
  /\ UNCHANGED <<current, positions>>
  /\ ScanFrame

\* Mutant of NoTransition: in Initial a name character right after a closing
\* quote is rejected, a tag has to be separated from the value before it.
NoTransitionAfterQuote ==
  \/ /\ state = StateInitial /\ c # SP
     /\ ~validTagNameCharacter(c) \/ (i > 0 /\ input[i] = QUOTE)
  \/ state = StateReadingName /\ ~validTagNameCharacter(c) /\ c # COLON /\ c # SP
  \/ state = StateExpectValue /\ c # SP /\ c # QUOTE

\* No case of the inner switch took the rune: control leaves the outer switch.
NoTransition ==
  \/ state = StateInitial /\ c # SP /\ ~validTagNameCharacter(c)
  \/ state = StateReadingName /\ ~validTagNameCharacter(c) /\ c # COLON /\ c # SP
  \/ state = StateExpectValue /\ c # SP /\ c # QUOTE

UnexpectedCharacter ==
  /\ pc = "start"
  /\ NoTransition
  /\ scanRet' = [positions |-> NilList, err |-> UnexpectedCharacterError(c, i, state)]
  /\ pc' = "scanned"
  /\ UNCHANGED <<call, input, ret>>
  /\ UNCHANGED scanVars
  /\ UNCHANGED buildVars
  /\ UNCHANGED ptVars
  /\ UNCHANGED other
  /\ UNCHANGED descVars

(***************************************************************************)
(* parseTagPositionList: the switch on the final state.                    *)
(***************************************************************************)
EndFrame ==
  /\ pc' = "scanned"
  /\ UNCHANGED <<call, input, i, c, state, dispatches, ret>>
  /\ UNCHANGED buildVars
  /\ UNCHANGED ptVars
  /\ UNCHANGED other
  /\ UNCHANGED descVars

EndInitial ==
  /\ pc = "range" /\ state = StateInitial
  /\ scanRet' = [positions |-> List(positions), err |-> NoError]
  /\ UNCHANGED <<current, positions>>
  /\ EndFrame

\* Mutant of EndReadingName: the name the input ends in is not emitted.
EndReadingNameNoEmit ==
  /\ pc = "range" /\ state = StateReadingName
  /\ scanRet' = [positions |-> List(positions), err |-> NoError]
  /\ UNCHANGED <<current, positions>>
  /\ EndFrame

EndReadingName ==
  /\ pc = "range" /\ state = StateReadingName
  /\ current' = [current EXCEPT !.nameEnd = Len(input) - 1]
  /\ positions' = Append(positions, current')
  /\ scanRet' = [positions |-> List(positions'), err |-> NoError]
  /\ EndFrame

\* Mutant of EndDefault: the final switch has no default, every state returns
\* the positions.
EndDefaultNoError ==
  /\ pc = "range" /\ state \notin {StateInitial, StateReadingName}
  /\ scanRet' = [positions |-> List(positions), err |-> NoError]
  /\ UNCHANGED <<current, positions>>
  /\ EndFrame

EndDefault ==
  /\ pc = "range" /\ state \notin {StateInitial, StateReadingName}
  /\ scanRet' = [positions |-> NilList, err |-> UnexpectedEofError(state)]
  /\ UNCHANGED <<current, positions>>
  /\ EndFrame

(***************************************************************************)
(* ParseTagList, from the return of parseTagPositionList on.               *)
(***************************************************************************)
BuildFrame ==
  /\ UNCHANGED <<call, input, scanRet>>
  /\ UNCHANGED scanVars
  /\ UNCHANGED ptVars
  /\ UNCHANGED other
  /\ UNCHANGED descVars

\* Mutant of ReturnError: the tags built so far are returned with the error.
ReturnErrorPartial(built, e) == [tags |-> List(built), err |-> e]

\* return nil, fmt.Errorf(...): the tags built so far are not returned.
ReturnError(built, e) == [tags |-> NilList, err |-> e]

\* Mutant of ParseTagListScanError: the values of the records emitted before
\* the scanner failed are unquoted first.
ParseTagListScanErrorAfterUnquote ==
  /\ pc = "scanned" /\ scanRet.err.kind # "none"
  /\ LET bad == {n \in 1..Len(positions) :
                   unquotedValue(getNameAndValue(positions[n], input)).err.kind # "none"}
     IN ret' = IF bad = {}
                 THEN ReturnError(tags, Wrap("ParseTagList: could not parse struct tags",
                                             scanRet.err))
                 ELSE ReturnError(tags,
                        [Wrap("ParseTagList: could not unquote value for tag", UnquoteError)
                           EXCEPT !.tag = getName(positions[CHOOSE n \in bad :
                                                              \A o \in bad : n <= o],
                                                  input)])
  /\ pc' = "done"
  /\ UNCHANGED buildVars
  /\ BuildFrame

ParseTagListScanError ==
  /\ pc = "scanned" /\ scanRet.err.kind # "none"
  /\ ret' = ReturnError(tags, Wrap("ParseTagList: could not parse struct tags", scanRet.err))
  /\ pc' = "done"
  /\ UNCHANGED buildVars
  /\ BuildFrame

ParseTagListExtract ==
  /\ pc = "scanned" /\ scanRet.err.kind = "none"
  /\ rawTags' = getNamesAndValues(scanRet.positions, input).list
  /\ pc' = "build"
  /\ UNCHANGED <<k, unquoted, tags, ret>>
  /\ BuildFrame

\* Mutant of ParseTagListUnquoteError: the loop goes on to the next raw tag.
ParseTagListUnquoteErrorSkipped ==
  /\ pc = "build" /\ k < Len(rawTags)
  /\ unquotedValue(rawTags[k + 1]).err.kind # "none"
  /\ k' = k + 1
  /\ unquoted' = Append(unquoted, <<>>)
  /\ UNCHANGED <<pc, ret, rawTags, tags>>
  /\ BuildFrame

ParseTagListUnquoteError ==
  /\ pc = "build" /\ k < Len(rawTags)
  /\ LET rawTag == rawTags[k + 1]
         u == unquotedValue(rawTag)
     IN /\ u.err.kind # "none"
        /\ ret' = ReturnError(tags,
                     [Wrap("ParseTagList: could not unquote value for tag", u.err)
                        EXCEPT !.tag = rawTag.name])
  /\ pc' = "done"
  /\ UNCHANGED buildVars
  /\ BuildFrame

ParseTagListAppend ==
  /\ pc = "build" /\ k < Len(rawTags)
  /\ LET rawTag == rawTags[k + 1]
         u == unquotedValue(rawTag)
         t == ParseTag(rawTag.name, u.s)
     IN /\ u.err.kind = "none"
        /\ unquoted' = Append(unquoted, u.s)
        /\ IF t.err.kind # "none"
             THEN /\ ret' = ReturnError(tags,
                               [Wrap("ParseTagList: could not parse value for tag", t.err)
                                  EXCEPT !.tag = rawTag.name])
                  /\ pc' = "done"
                  /\ UNCHANGED <<k, tags>>
             ELSE /\ tags' = Append(tags, t.tag)
                  /\ k' = k + 1
                  /\ UNCHANGED <<pc, ret>>
  /\ UNCHANGED rawTags
  /\ BuildFrame

ParseTagListReturn ==
  /\ pc = "build" /\ k = Len(rawTags)
  /\ ret' = [tags |-> List(tags), err |-> NoError]
  /\ pc' = "done"
  /\ UNCHANGED buildVars
  /\ BuildFrame

(***************************************************************************)
(* A call of the public ParseTag.                                          *)
(***************************************************************************)
ParseTagCall ==
  /\ pc = "parseTag"
  /\ ptRet' = ParseTag(ptName, ptValue)
  /\ pc' = "done"
  /\ UNCHANGED <<call, input, scanRet, ret, ptName, ptValue>>
  /\ UNCHANGED scanVars
  /\ UNCHANGED buildVars
  /\ UNCHANGED other
  /\ UNCHANGED descVars

Next ==
  \/ NextRune
  \/ InitialSpace
  \/ InitialNameCharacter
  \/ ReadingNameCharacter
  \/ ReadingNameColon
  \/ ReadingNameSpace
  \/ ExpectValueSpace
  \/ ExpectValueQuote
  \/ ReadingValueQuote
  \/ ReadingValueBackslash
  \/ ReadingValueDefault
  \/ ReadingEscapedCharacter
  \/ UnexpectedCharacter
  \/ EndInitial
  \/ EndReadingName
  \/ EndDefault
  \/ ParseTagListScanError
  \/ ParseTagListExtract
  \/ ParseTagListUnquoteError
  \/ ParseTagListAppend
  \/ ParseTagListReturn
  \/ ParseTagCall

Spec == Init /\ [][Next]_vars

\* A call of parseTagPositionList alone, which runs on: a step that can be
\* taken is taken.
InitScan == Init /\ call = "ParseTagList"

NextScan ==
  \/ NextRune
  \/ InitialSpace
  \/ InitialNameCharacter
  \/ ReadingNameCharacter
  \/ ReadingNameColon
  \/ ReadingNameSpace
  \/ ExpectValueSpace
  \/ ExpectValueQuote
  \/ ReadingValueQuote
  \/ ReadingValueBackslash
  \/ ReadingValueDefault
  \/ ReadingEscapedCharacter
  \/ UnexpectedCharacter
  \/ EndInitial
  \/ EndReadingName
  \/ EndDefault

SpecScan == InitScan /\ [][NextScan]_vars /\ WF_vars(NextScan)

(***************************************************************************)
(* Two calls in progress at once.  Every variable of ParseTagList,         *)
(* parseTagPositionList and ParseTag is a parameter or a local of its      *)
(* call, and the package declares no variable: a call that is not running  *)
(* keeps its locals, and the running call has its own.                     *)
(***************************************************************************)
\* The locals of the running call.
Frame ==
  [call |-> call, input |-> input, pc |-> pc, i |-> i, c |-> c, state |-> state,
   current |-> current, positions |-> positions, dispatches |-> dispatches,
   scanRet |-> scanRet,
   rawTags |-> rawTags, k |-> k, unquoted |-> unquoted, tags |-> tags, ret |-> ret,
   ptName |-> ptName, ptValue |-> ptValue, ptRet |-> ptRet]

\* The calls that can be started: ParseTagList on a string still to be read,
\* ParseTag on a name and a value.
ConcFrames ==
  {ListFrame} \cup
  {[ListFrame EXCEPT !.call = "ParseTag", !.pc = "parseTag", !.ptName = n, !.ptValue = v] :
     n \in TagNames, v \in SeqsUpTo(ValueBytes, MaxConcValueLen)}

InitConc ==
  /\ \E f \in ConcFrames :
       /\ call = f.call /\ input = f.input /\ pc = f.pc
       /\ i = f.i /\ c = f.c /\ state = f.state
       /\ current = f.current /\ positions = f.positions /\ scanRet = f.scanRet
       /\ dispatches = f.dispatches
       /\ rawTags = f.rawTags /\ k = f.k /\ unquoted = f.unquoted /\ tags = f.tags
       /\ ret = f.ret
       /\ ptName = f.ptName /\ ptValue = f.ptValue /\ ptRet = f.ptRet
  /\ other \in ConcFrames
  /\ typ = NoType
  /\ gdRet = NotCalled
  /\ gdtRet = NotCalled
  /\ acc = NoAccess

\* Mutant of Switch: current is one variable of the package, which the call
\* that resumes finds as the other call left it.
SwitchSharedCurrent ==
  /\ other.call # "none"
  /\ other' = Frame
  /\ call' = other.call /\ input' = other.input /\ pc' = other.pc
  /\ i' = other.i /\ c' = other.c /\ state' = other.state
  /\ current' = current /\ positions' = other.positions /\ scanRet' = other.scanRet
  /\ dispatches' = other.dispatches
  /\ rawTags' = other.rawTags /\ k' = other.k /\ unquoted' = other.unquoted
  /\ tags' = other.tags /\ ret' = other.ret
  /\ ptName' = other.ptName /\ ptValue' = other.ptValue /\ ptRet' = other.ptRet
  /\ UNCHANGED descVars

\* The running call stops where it is and the other call goes on where it
\* stopped, each with its own arguments and locals.
Switch ==
  /\ other.call # "none"
  /\ other' = Frame
  /\ call' = other.call /\ input' = other.input /\ pc' = other.pc
  /\ i' = other.i /\ c' = other.c /\ state' = other.state
  /\ current' = other.current /\ positions' = other.positions /\ scanRet' = other.scanRet
  /\ dispatches' = other.dispatches
  /\ rawTags' = other.rawTags /\ k' = other.k /\ unquoted' = other.unquoted
  /\ tags' = other.tags /\ ret' = other.ret
  /\ ptName' = other.ptName /\ ptValue' = other.ptValue /\ ptRet' = other.ptRet
  /\ UNCHANGED descVars

NextConc ==
  \/ Switch
  \/ NextRune
  \/ InitialSpace
  \/ InitialNameCharacter
  \/ ReadingNameCharacter
  \/ ReadingNameColon
  \/ ReadingNameSpace
  \/ ExpectValueSpace
  \/ ExpectValueQuote
  \/ ReadingValueQuote
  \/ ReadingValueBackslash
  \/ ReadingValueDefault
  \/ ReadingEscapedCharacter
  \/ UnexpectedCharacter
  \/ EndInitial
  \/ EndReadingName
  \/ EndDefault
  \/ ParseTagListScanError
  \/ ParseTagListExtract
  \/ ParseTagListUnquoteError
  \/ ParseTagListAppend
  \/ ParseTagListReturn
  \/ ParseTagCall

SpecConc == InitConc /\ [][NextConc]_vars


(***************************************************************************)
(* reflectutil.go: the parser GetDescription uses on each field's          *)
(* annotation string (parseTags, getTags, parseTag, getValueAndParameters, *)
(* getParameters).  getName, getValue, getNameAndValue, getNamesAndValues  *)
(* and validTagNameCharacter are written there as in the parser above.     *)
(***************************************************************************)
parseTagsStateInitial == "Initial"
parseTagsStateReadingName == "ReadingName"
parseTagsStateExpectValue == "ExpectValue"
parseTagsStateReadingValue == "ReadingValue"
parseTagsStateReadingEscapedCharacter == "ReadingEscapedCharacter"

parseTagsCharacterError(ch, at, st) ==
  [kind |-> "char", char |-> ch, pos |-> at, state |-> st, tag |-> <<>>, field |-> "",
   wrap |-> <<"reflectutil.parseTags">>]

parseTagsEofError(st) ==
  [kind |-> "eof", char |-> "", pos |-> 0, state |-> st, tag |-> <<>>, field |-> "",
   wrap |-> <<"reflectutil.parseTags">>]

\* The rune that starts at a byte offset of a string.
RuneAt(s, at) == IF s[at + 1] = "0xC3" THEN EACUTE ELSE s[at + 1]

\* Mutant of parseTagsEnd: the name the string ends in is not emitted.
parseTagsEndNoEmit(tag, st, cur, emitted) ==
  IF st \in {parseTagsStateInitial, parseTagsStateReadingName}
    THEN [positions |-> List(emitted), err |-> NoError]
  ELSE [positions |-> NilList, err |-> parseTagsEofError(st)]

\* parseTags: the switch on the final state.  Returns [positions, err].
parseTagsEnd(tag, st, cur, emitted) ==
  IF st = parseTagsStateInitial THEN [positions |-> List(emitted), err |-> NoError]
  ELSE IF st = parseTagsStateReadingName
    THEN [positions |-> List(Append(emitted, [cur EXCEPT !.nameEnd = Len(tag) - 1])),
          err |-> NoError]
  ELSE [positions |-> NilList, err |-> parseTagsEofError(st)]

\* parseTags: the switch at the label start for the rune at byte offset at:
\* [unexpected, at, st, cur, emitted], where at is the offset the loop goes
\* on at, the next rune's after continue and the same after goto start, and
\* unexpected tells that no case took the rune.
parseTagsSwitch(tag, at, st, cur, emitted) ==
  LET ch == RuneAt(tag, at)
      next == at + Len(RuneBytes(ch))
      unexpected ==
        [unexpected |-> TRUE, at |-> at, st |-> st, cur |-> cur, emitted |-> emitted]
      continue(st2, cur2, emitted2) ==
        [unexpected |-> FALSE, at |-> next, st |-> st2, cur |-> cur2, emitted |-> emitted2]
      gotoStart(st2, cur2, emitted2) ==
        [unexpected |-> FALSE, at |-> at, st |-> st2, cur |-> cur2, emitted |-> emitted2]
  IN IF st = parseTagsStateInitial
       THEN IF ch = SP THEN continue(st, cur, emitted)
            ELSE IF validTagNameCharacter(ch)
              THEN gotoStart(parseTagsStateReadingName, [cur EXCEPT !.nameStart = at], emitted)
            ELSE unexpected
     ELSE IF st = parseTagsStateReadingName
       THEN IF validTagNameCharacter(ch) THEN continue(st, cur, emitted)
            ELSE IF ch = COLON
              THEN continue(parseTagsStateExpectValue,
                            [cur EXCEPT !.nameEnd = at - 1, !.colon = at], emitted)
            ELSE IF ch = SP
              THEN gotoStart(parseTagsStateInitial, ZeroPosition,
                             Append(emitted, [cur EXCEPT !.nameEnd = at - 1]))
            ELSE unexpected
     ELSE IF st = parseTagsStateExpectValue
       THEN IF ch = SP THEN continue(st, cur, emitted)
            ELSE IF ch = QUOTE
              THEN continue(parseTagsStateReadingValue, [cur EXCEPT !.valueStart = at], emitted)
            ELSE unexpected
     ELSE IF st = parseTagsStateReadingValue
       THEN IF ch = QUOTE
              THEN continue(parseTagsStateInitial, ZeroPosition,
                            Append(emitted, [cur EXCEPT !.valueEnd = at]))
            ELSE IF ch = BSLASH
              THEN continue(parseTagsStateReadingEscapedCharacter, cur, emitted)
            ELSE continue(st, cur, emitted)
     ELSE continue(parseTagsStateReadingValue, cur, emitted)

\* parseTags: the range loop, from byte offset at on.
RECURSIVE parseTagsLoop(_, _, _, _, _)
parseTagsLoop(tag, at, st, cur, emitted) ==
  IF at >= Len(tag) THEN parseTagsEnd(tag, st, cur, emitted)
  ELSE LET r == parseTagsSwitch(tag, at, st, cur, emitted)
       IN IF r.unexpected
            THEN [positions |-> NilList,
                  err |-> parseTagsCharacterError(RuneAt(tag, at), at, st)]
            ELSE parseTagsLoop(tag, r.at, r.st, r.cur, r.emitted)

parseTags(tag) == parseTagsLoop(tag, 0, parseTagsStateInitial, ZeroPosition, <<>>)

\* tagNameAndValue.unquotedValue of reflectutil.go: [s, err].
reflectutilUnquotedValue(t) ==
  IF t.value = <<>> THEN [s |-> <<>>, err |-> NoError]
  ELSE LET u == Unquote(t.value)
       IN IF ~u.ok
            THEN [s |-> <<>>,
                  err |-> [UnquoteError EXCEPT
                             !.wrap = <<"reflectutil.tagNameAndValue.unquotedValue",
                                        "strconv.ErrSyntax">>]]
            ELSE [s |-> u.out, err |-> NoError]

\* getParameters: the loop over the entries.
RECURSIVE getParametersLoop(_, _)
getParametersLoop(entries, parameters) ==
  IF entries = <<>> THEN parameters
  ELSE LET e == Head(entries)
           a == SplitN2(e, COLON)
       IN IF e = <<>> THEN getParametersLoop(Tail(entries), parameters)
          ELSE IF Len(a) = 2
            THEN getParametersLoop(Tail(entries),
                                   Append(parameters, [name |-> a[1], value |-> a[2]]))
          ELSE getParametersLoop(Tail(entries),
                                 Append(parameters, [name |-> a[1], value |-> <<>>]))

\* Returns [parameters, err]; the error is always nil.
getParameters(remainingTagValue) ==
  [parameters |-> getParametersLoop(Split(remainingTagValue, COMMA), <<>>), err |-> NoError]

\* Returns [value, parameters, err].
getValueAndParameters(tagValue) ==
  IF tagValue = <<>> THEN [value |-> <<>>, parameters |-> <<>>, err |-> NoError]
  ELSE LET valueAndParameters == SplitN2(tagValue, COMMA)
       IN IF Len(valueAndParameters) = 1
            THEN [value |-> valueAndParameters[1], parameters |-> <<>>, err |-> NoError]
          ELSE IF valueAndParameters[2] = <<>>
            THEN [value |-> valueAndParameters[1], parameters |-> <<>>, err |-> NoError]
          ELSE LET p == getParameters(valueAndParameters[2])
               IN IF p.err.kind # "none"
                    THEN [value |-> <<>>, parameters |-> <<>>,
                          err |-> Wrap("reflectutil.getValueAndParameters: couldn't get parameters",
                                       p.err)]
                    ELSE [value |-> valueAndParameters[1], parameters |-> p.parameters,
                          err |-> NoError]

\* Returns [nil, tag, err].
parseTag(name, tagValue) ==
  LET r == getValueAndParameters(tagValue)
  IN IF r.err.kind # "none"
       THEN [nil |-> TRUE, tag |-> NoTag,
             err |-> Wrap("reflectutil.parseTag: couldn't get value and parameters", r.err)]
       ELSE [nil |-> FALSE,
             tag |-> [name |-> name, value |-> r.value, parameters |-> r.parameters],
             err |-> NoError]

\* getTags: an iteration of the loop from the return of parseTag on, t
\* being what parseTag returned.
RECURSIVE getTagsLoop(_, _)
getTagsParsed(raw, built, t) ==
  IF t.err.kind # "none"
    THEN [tags |-> NilList,
          err |-> [Wrap("reflectutil.getTags: could not parse value for tag", t.err)
                     EXCEPT !.tag = Head(raw).name]]
    ELSE getTagsLoop(Tail(raw), Append(built, t.tag))

\* getTags: an iteration of the loop from the return of unquotedValue on, u
\* being what unquotedValue returned.
getTagsUnquoted(raw, built, u) ==
  IF u.err.kind # "none"
    THEN [tags |-> NilList,
          err |-> [Wrap("reflectutil.getTags: could not unquote value for tag", u.err)
                     EXCEPT !.tag = Head(raw).name]]
    ELSE getTagsParsed(raw, built, parseTag(Head(raw).name, u.s))

\* getTags: the loop over the raw tags.  Returns [tags, err].
getTagsLoop(raw, built) ==
  IF raw = <<>> THEN [tags |-> List(built), err |-> NoError]
  ELSE getTagsUnquoted(raw, built, reflectutilUnquotedValue(Head(raw)))

\* getTags from the return of parseTags on.
getTagsOfPositions(structTag, tagPositionDescriptors) ==
  IF tagPositionDescriptors.err.kind # "none"
    THEN [tags |-> NilList,
          err |-> Wrap("reflectutil.getTags: could not parse struct tags",
                       tagPositionDescriptors.err)]
    ELSE getTagsLoop(getNamesAndValues(tagPositionDescriptors.positions, structTag).list,
                     <<>>)

getTags(structTag) == getTagsOfPositions(structTag, parseTags(structTag))

(***************************************************************************)
(* reflectutil.go: GetDescription and GetDescriptionFromType.              *)
(***************************************************************************)
RECURSIVE getFieldsLoop(_, _, _)

\* Mutant of getFieldsAppend: tags is declared before the loop, and a field
\* gets the tags of the fields before it with its own.
getFieldsAppendTagsKept(structFields, n, fields, r) ==
  IF r.err.kind # "none"
    THEN [fields |-> NilList,
          err |-> [Wrap("reflectutil.getFields: could not get tags for field", r.err)
                     EXCEPT !.field = structFields[n + 1].name]]
    ELSE getFieldsLoop(structFields, n + 1,
           Append(fields,
                  [name |-> structFields[n + 1].name, index |-> <<n>>,
                   tags |-> List((IF fields = <<>> THEN <<>>
                                  ELSE fields[Len(fields)].tags.list) \o r.tags.list)]))

\* Mutant of getFieldsAppend: a field whose annotation string does not parse
\* is left out, and the loop goes on.
getFieldsAppendSkipFailing(structFields, n, fields, r) ==
  IF r.err.kind # "none"
    THEN getFieldsLoop(structFields, n + 1, fields)
    ELSE getFieldsLoop(structFields, n + 1,
           Append(fields, [name |-> structFields[n + 1].name, index |-> <<n>>,
                           tags |-> r.tags]))

\* getFields: an iteration of the loop from the return of getTags on, r
\* being what getTags returned.
getFieldsAppend(structFields, n, fields, r) ==
  IF r.err.kind # "none"
    THEN [fields |-> NilList,
          err |-> [Wrap("reflectutil.getFields: could not get tags for field", r.err)
                     EXCEPT !.field = structFields[n + 1].name]]
    ELSE getFieldsLoop(structFields, n + 1,
           Append(fields, [name |-> structFields[n + 1].name, index |-> <<n>>,
                           tags |-> r.tags]))

\* getFields: the loop over reflect.VisibleFields(typ), n fields done.
\* Returns [fields, err].
getFieldsLoop(structFields, n, fields) ==
  IF n >= Len(structFields) THEN [fields |-> List(fields), err |-> NoError]
  ELSE getFieldsAppend(structFields, n, fields, getTags(structFields[n + 1].tag))

getFields(t) == getFieldsLoop(t.fields, 0, <<>>)

NotStructError ==
  [kind |-> "input should be struct or pointer to struct", char |-> "", pos |-> 0,
   state |-> "", tag |-> <<>>, field |-> "",
   wrap |-> <<"reflectutil.getDescriptionFromType">>]

\* getDescriptionFromType from the return of getFields on, f being what
\* getFields returned for the struct type.
describeStruct(elem, f) ==
  IF f.err.kind # "none"
    THEN [nil |-> TRUE, desc |-> NoDescription,
          err |-> Wrap("reflectutil.getDescriptionFromType: could not get field descriptions",
                       f.err)]
    ELSE [nil |-> FALSE,
          desc |-> [name |-> elem.name, typ |-> elem, fields |-> f.fields],
          err |-> NoError]

\* Mutant of getDescriptionFromType: a pointer is not replaced by the type
\* it points to.
getDescriptionFromTypeNoElem(t) ==
  IF t.kind # "Struct"
    THEN [nil |-> TRUE, desc |-> NoDescription, err |-> NotStructError]
    ELSE describeStruct(t, getFields(t))

\* Returns [nil, desc, err]: a nil *StructDescription with an error, or a
\* description and no error.
getDescriptionFromType(t) ==
  IF (IF t.kind = "Ptr" THEN t.elem[1] ELSE t).kind # "Struct"
    THEN [nil |-> TRUE, desc |-> NoDescription, err |-> NotStructError]
    ELSE describeStruct(IF t.kind = "Ptr" THEN t.elem[1] ELSE t,
                        getFields(IF t.kind = "Ptr" THEN t.elem[1] ELSE t))

\* The return of GetDescription and GetDescriptionFromType, r being what
\* getDescriptionFromType returned.
returnDescription(context, r) ==
  IF r.err.kind # "none"
    THEN [nil |-> TRUE, desc |-> NoDescription, err |-> Wrap(context, r.err)]
    ELSE r

\* GetDescription(input), t being reflect.TypeOf(input).
GetDescription(t) ==
  returnDescription("reflectutil.GetDescription: could not get description",
                    getDescriptionFromType(t))

\* Mutant of GetDescriptionFromType: the type itself is described, and a
\* pointer type is an error.
GetDescriptionFromTypeOfStruct(t) ==
  IF t.kind = "Ptr"
    THEN [nil |-> TRUE, desc |-> NoDescription,
          err |-> Wrap("reflectutil.GetDescriptionFromType: could not get description",
                       NotStructError)]
    ELSE GetDescription(t)

GetDescriptionFromType(t) ==
  returnDescription("reflectutil.GetDescriptionFromType: could not get description",
                    getDescriptionFromType(t))

(***************************************************************************)
(* reflectutil.go: the accessors.  A Get returns [nil, val]: a nil pointer, *)
(* or a pointer to a copy of an entry.                                     *)
(***************************************************************************)
NoField == [name |-> "", index |-> <<>>, tags |-> NilList]
NoParameter == [name |-> <<>>, value |-> <<>>]

RECURSIVE FieldListGet(_, _)
FieldListGet(l, name) ==
  IF l = <<>> THEN [nil |-> TRUE, val |-> NoField]
  ELSE IF Head(l).name = name THEN [nil |-> FALSE, val |-> Head(l)]
  ELSE FieldListGet(Tail(l), name)

\* Mutant of TagListGet: the loop goes on after a match, and the last entry
\* of the name is returned.
RECURSIVE TagListGetLast(_, _)
TagListGetLast(l, name) ==
  IF l = <<>> THEN [nil |-> TRUE, val |-> NoTag]
  ELSE IF ~TagListGetLast(Tail(l), name).nil THEN TagListGetLast(Tail(l), name)
  ELSE IF Head(l).name = name THEN [nil |-> FALSE, val |-> Head(l)]
  ELSE [nil |-> TRUE, val |-> NoTag]

RECURSIVE TagListGet(_, _)
TagListGet(l, name) ==
  IF l = <<>> THEN [nil |-> TRUE, val |-> NoTag]
  ELSE IF Head(l).name = name THEN [nil |-> FALSE, val |-> Head(l)]
  ELSE TagListGet(Tail(l), name)

RECURSIVE ParameterListGet(_, _)
ParameterListGet(l, name) ==
  IF l = <<>> THEN [nil |-> TRUE, val |-> NoParameter]
  ELSE IF Head(l).name = name THEN [nil |-> FALSE, val |-> Head(l)]
  ELSE ParameterListGet(Tail(l), name)

\* (*StructDescription).Field, (*Field).Tag, (*Tag).Parameter.
StructDescriptionField(s, name) == FieldListGet(s.fields.list, name)
FieldTag(f, name) == TagListGet(f.tags.list, name)
TagParameter(tg, name) == ParameterListGet(tg.parameters, name)

\* TagList.WithName: the loop, r being the result so far.
RECURSIVE TagListWithNameLoop(_, _, _)
TagListWithNameLoop(l, name, r) ==
  IF l = <<>> THEN r
  ELSE IF Head(l).name = name THEN TagListWithNameLoop(Tail(l), name, Append(r, Head(l)))
  ELSE TagListWithNameLoop(Tail(l), name, r)

\* Mutant of TagListWithName: the loop ends at the first tag of the name.
TagListWithNameFirstOnly(l, name) ==
  List(IF TagListGet(l, name).nil THEN <<>> ELSE <<TagListGet(l, name).val>>)

TagListWithName(l, name) == List(TagListWithNameLoop(l, name, <<>>))

\* The inner loop of WithTag and WithoutTag: whether it reaches a tag of
\* that name, and so continues the outer loop.
RECURSIVE TagNamed(_, _)
TagNamed(tagList, name) ==
  IF tagList = <<>> THEN FALSE
  ELSE IF Head(tagList).name = name THEN TRUE
  ELSE TagNamed(Tail(tagList), name)

\* The inner loop of WithTagValue and WithoutTagValue.
RECURSIVE TagNamedWithValue(_, _, _)
TagNamedWithValue(tagList, name, value) ==
  IF tagList = <<>> THEN FALSE
  ELSE IF Head(tagList).name = name /\ Head(tagList).value = value THEN TRUE
  ELSE TagNamedWithValue(Tail(tagList), name, value)

RECURSIVE FieldListWithTagLoop(_, _, _)
FieldListWithTagLoop(l, name, r) ==
  IF l = <<>> THEN r
  ELSE IF TagNamed(Head(l).tags.list, name)
    THEN FieldListWithTagLoop(Tail(l), name, Append(r, Head(l)))
  ELSE FieldListWithTagLoop(Tail(l), name, r)

\* Mutant of FieldListWithTag: the inner loop goes on after a match, and a
\* field is appended once for each of its tags of the name.
RECURSIVE FieldListWithTagEveryTag(_, _)
FieldListWithTagEveryTag(l, name) ==
  IF l = <<>> THEN List(<<>>)
  ELSE List([m \in 1..Cardinality({n \in 1..Len(Head(l).tags.list) :
                                     Head(l).tags.list[n].name = name}) |-> Head(l)]
            \o FieldListWithTagEveryTag(Tail(l), name).list)

FieldListWithTag(l, name) == List(FieldListWithTagLoop(l, name, <<>>))

RECURSIVE FieldListWithoutTagLoop(_, _, _)
FieldListWithoutTagLoop(l, name, r) ==
  IF l = <<>> THEN r
  ELSE IF TagNamed(Head(l).tags.list, name)
    THEN FieldListWithoutTagLoop(Tail(l), name, r)
  ELSE FieldListWithoutTagLoop(Tail(l), name, Append(r, Head(l)))

FieldListWithoutTag(l, name) == List(FieldListWithoutTagLoop(l, name, <<>>))

RECURSIVE FieldListWithTagValueLoop(_, _, _, _)
FieldListWithTagValueLoop(l, name, value, r) ==
  IF l = <<>> THEN r
  ELSE IF TagNamedWithValue(Head(l).tags.list, name, value)
    THEN FieldListWithTagValueLoop(Tail(l), name, value, Append(r, Head(l)))
  ELSE FieldListWithTagValueLoop(Tail(l), name, value, r)

\* Mutant of FieldListWithTagValue: only the first tag of the name is
\* compared with the value.
FieldListWithTagValueFirstTag(l, name, value) ==
  List(SelectSeq(l, LAMBDA f : /\ ~TagListGet(f.tags.list, name).nil
                               /\ TagListGet(f.tags.list, name).val.value = value))

FieldListWithTagValue(l, name, value) == List(FieldListWithTagValueLoop(l, name, value, <<>>))

RECURSIVE FieldListWithoutTagValueLoop(_, _, _, _)
FieldListWithoutTagValueLoop(l, name, value, r) ==
  IF l = <<>> THEN r
  ELSE IF TagNamedWithValue(Head(l).tags.list, name, value)
    THEN FieldListWithoutTagValueLoop(Tail(l), name, value, r)
  ELSE FieldListWithoutTagValueLoop(Tail(l), name, value, Append(r, Head(l)))

FieldListWithoutTagValue(l, name, value) ==
  List(FieldListWithoutTagValueLoop(l, name, value, <<>>))

(***************************************************************************)
(* The inputs of GetDescription: struct types of up to MaxFields fields    *)
(* with distinct names, each field with an annotation string, pointers to  *)
(* them, and types that are neither.                                       *)
(***************************************************************************)
FieldNames == {"A", "B", "C"}
StructNames == {"S", ""}

Quoted(v) == <<QUOTE>> \o v \o <<QUOTE>>

AnnotationStrings ==
  { <<>>,                                                        \* no annotation
    <<"a">>,                                                     \* a
    <<"a", COLON>> \o Quoted(<<"b">>),                           \* a:"b"
    <<"a", COLON>> \o Quoted(<<"a">>) \o <<SP, "b", SP, "a", COLON>> \o Quoted(<<"b">>),
                                                                 \* a:"a" b a:"b"
    <<"b", COLON>> \o Quoted(<<"a", COMMA, "b", COLON, "a", COMMA, "b", COLON, "b">>),
                                                                 \* b:"a,b:a,b:b"
    <<"b", COLON>> \o Quoted(<<"b">>) \o <<SP, "a", COLON>> \o Quoted(<<>>),
                                                                 \* b:"b" a:""
    <<"a", COLON>>,                                              \* a:
    <<"b", SP, "a", COLON>> \o Quoted(<<BSLASH, DOLLAR>>) }      \* b a:"\$"

\* The names and values the accessors are asked for.
AccessorTagNames == {<<"a">>, <<"b">>, <<"c">>}
AccessorValues == {<<>>, <<"a">>, <<"b">>}

\* The field lists of n fields or fewer.
RECURSIVE FieldSeqs(_)
FieldSeqs(n) ==
  IF n = 0 THEN {<<>>}
  ELSE LET shorter == FieldSeqs(n - 1)
       IN shorter \cup
          UNION {{Append(s, [name |-> f, tag |-> a]) :
                    f \in FieldNames \ {s[m].name : m \in 1..Len(s)},
                    a \in AnnotationStrings} :
                 s \in {q \in shorter : Len(q) = n - 1}}

StructTypes == {StructType(n, fs) : n \in StructNames, fs \in FieldSeqs(MaxFields)}

InputTypes ==
  StructTypes \cup {PtrTo(s) : s \in StructTypes} \cup {PtrTo(PtrTo(s)) : s \in StructTypes}
    \cup {StringType, PtrTo(StringType)}

parserVars == <<call, input, pc, i, c, state, current, positions, dispatches, scanRet, rawTags, k,
                unquoted, tags, ret, ptName, ptValue, ptRet, other>>

InitDesc ==
  /\ call = NoCall.call /\ input = NoCall.input /\ pc = NoCall.pc
  /\ i = NoCall.i /\ c = NoCall.c /\ state = NoCall.state
  /\ current = NoCall.current /\ positions = NoCall.positions /\ scanRet = NoCall.scanRet
  /\ dispatches = NoCall.dispatches
  /\ rawTags = NoCall.rawTags /\ k = NoCall.k /\ unquoted = NoCall.unquoted
  /\ tags = NoCall.tags /\ ret = NoCall.ret
  /\ ptName = NoCall.ptName /\ ptValue = NoCall.ptValue /\ ptRet = NoCall.ptRet
  /\ other = NoCall
  /\ typ \in InputTypes
  /\ gdRet = NotCalled
  /\ gdtRet = NotCalled
  /\ acc = NoAccess

(***************************************************************************)
(* Calls of GetDescription and GetDescriptionFromType on the type, and of  *)
(* the accessors on the description GetDescription returned.               *)
(***************************************************************************)
Returning(r) == [called |-> TRUE, nil |-> r.nil, desc |-> r.desc, err |-> r.err]

CallGetDescription ==
  /\ ~gdRet.called
  /\ gdRet' = Returning(GetDescription(typ))
  /\ UNCHANGED <<typ, gdtRet, acc>>
  /\ UNCHANGED parserVars

CallGetDescriptionFromType ==
  /\ ~gdtRet.called
  /\ gdtRet' = Returning(GetDescriptionFromType(typ))
  /\ UNCHANGED <<typ, gdRet, acc>>
  /\ UNCHANGED parserVars

\* GetDescription returned a description d, and no accessor was called on
\* it yet: a run calls one accessor.
Described == gdRet.called /\ ~gdRet.nil /\ acc.op = "none"

\* d.Fields()
Fields == gdRet.desc.fields.list

AccessFrame ==
  /\ UNCHANGED <<typ, gdRet, gdtRet>>
  /\ UNCHANGED parserVars

\* d.Field(name)
CallField ==
  /\ Described
  /\ \E name \in FieldNames :
       acc' = [op |-> "Field", recv |-> Fields, name |-> name, value |-> <<>>,
               result |-> StructDescriptionField(gdRet.desc, name)]
  /\ AccessFrame

\* f.Tag(name), f a field of d
CallTag ==
  /\ Described
  /\ \E n \in 1..Len(Fields), name \in AccessorTagNames :
       acc' = [op |-> "Tag", recv |-> Fields[n].tags.list, name |-> name, value |-> <<>>,
               result |-> FieldTag(Fields[n], name)]
  /\ AccessFrame

\* t.Parameter(name), t a tag of a field of d
CallParameter ==
  /\ Described
  /\ \E n \in 1..Len(Fields), name \in AccessorTagNames :
       \E m \in 1..Len(Fields[n].tags.list) :
         acc' = [op |-> "Parameter", recv |-> Fields[n].tags.list[m].parameters,
                 name |-> name, value |-> <<>>,
                 result |-> TagParameter(Fields[n].tags.list[m], name)]
  /\ AccessFrame

\* f.Tags().WithName(name), f a field of d
CallWithName ==
  /\ Described
  /\ \E n \in 1..Len(Fields), name \in AccessorTagNames :
       acc' = [op |-> "WithName", recv |-> Fields[n].tags.list, name |-> name,
               value |-> <<>>, result |-> TagListWithName(Fields[n].tags.list, name)]
  /\ AccessFrame

\* d.Fields().WithTag(name)
CallWithTag ==
  /\ Described
  /\ \E name \in AccessorTagNames :
       acc' = [op |-> "WithTag", recv |-> Fields, name |-> name, value |-> <<>>,
               result |-> FieldListWithTag(Fields, name)]
  /\ AccessFrame

\* d.Fields().WithoutTag(name)
CallWithoutTag ==
  /\ Described
  /\ \E name \in AccessorTagNames :
       acc' = [op |-> "WithoutTag", recv |-> Fields, name |-> name, value |-> <<>>,
               result |-> FieldListWithoutTag(Fields, name)]
  /\ AccessFrame

\* d.Fields().WithTagValue(name, value)
CallWithTagValue ==
  /\ Described
  /\ \E name \in AccessorTagNames, value \in AccessorValues :
       acc' = [op |-> "WithTagValue", recv |-> Fields, name |-> name, value |-> value,
               result |-> FieldListWithTagValue(Fields, name, value)]
  /\ AccessFrame

\* d.Fields().WithoutTagValue(name, value)
CallWithoutTagValue ==
  /\ Described
  /\ \E name \in AccessorTagNames, value \in AccessorValues :
       acc' = [op |-> "WithoutTagValue", recv |-> Fields, name |-> name, value |-> value,
               result |-> FieldListWithoutTagValue(Fields, name, value)]
  /\ AccessFrame

NextDesc ==
  \/ CallGetDescription
  \/ CallGetDescriptionFromType
  \/ CallField
  \/ CallTag
  \/ CallParameter
  \/ CallWithName
  \/ CallWithTag
  \/ CallWithoutTag
  \/ CallWithTagValue
  \/ CallWithoutTagValue

SpecDesc == InitDesc /\ [][NextDesc]_vars

(***************************************************************************)
(* Reference definitions the properties are stated with.  None of them is  *)
(* used by the model of the code above.                                    *)
(***************************************************************************)
ListDone == call = "ParseTagList" /\ pc = "done"
TagDone == call = "ParseTag" /\ pc = "done"
ListOk == ListDone /\ ret.err.kind = "none"

IsNameByte(b) == b \in Letters \cup Digits \cup {"_"}

\* The string with every quoted value cut down to its opening quote.
RECURSIVE StripQuoted(_, _)
StripQuoted(s, inQuote) ==
  IF s = <<>> THEN <<>>
  ELSE IF inQuote
    THEN IF s[1] = BSLASH THEN StripQuoted(SubSeq(s, 3, Len(s)), TRUE)
         ELSE StripQuoted(Tail(s), s[1] # QUOTE)
    ELSE <<s[1]>> \o StripQuoted(Tail(s), s[1] = QUOTE)

\* The maximal runs of name bytes of a string, left to right.
RECURSIVE NameRuns(_, _)
NameRuns(s, run) ==
  IF s = <<>> THEN (IF run = <<>> THEN <<>> ELSE <<run>>)
  ELSE IF IsNameByte(s[1]) THEN NameRuns(Tail(s), Append(run, s[1]))
  ELSE (IF run = <<>> THEN <<>> ELSE <<run>>) \o NameRuns(Tail(s), <<>>)

\* The tag-name occurrences of an annotation string: the runs of name bytes
\* outside its quoted values.
TagNameOccurrences(s) == NameRuns(StripQuoted(s, FALSE), <<>>)

TagNamesOf(l) == [n \in 1..Len(l) |-> l[n].name]

\* The valueless tag of a name.
BareTag(name) == [name |-> name, value |-> <<>>, parameters |-> <<>>]

\* C1: an accepted annotation string yields exactly one Tag per tag-name
\* occurrence, in left-to-right order; repeated names are all kept.
C1_OneTagPerNameInOrder ==
  ListOk => /\ ~ret.tags.nil
            /\ TagNamesOf(ret.tags.list) = TagNameOccurrences(input)

\* C1 witness: three tags returned, two of them with the same name, a
\* different name between them.
C1_Witness ==
  /\ ListOk
  /\ Len(ret.tags.list) = 3
  /\ ret.tags.list[1].name = ret.tags.list[3].name
  /\ ret.tags.list[1].name # ret.tags.list[2].name

\* The space-separated tokens of a string.
RECURSIVE Tokens(_, _)
Tokens(s, tok) ==
  IF s = <<>> THEN (IF tok = <<>> THEN <<>> ELSE <<tok>>)
  ELSE IF s[1] # SP THEN Tokens(Tail(s), Append(tok, s[1]))
  ELSE (IF tok = <<>> THEN <<>> ELSE <<tok>>) \o Tokens(Tail(s), <<>>)

OnlyNameBytesAndSpaces(s) == \A n \in 1..Len(s) : IsNameByte(s[n]) \/ s[n] = SP

\* C2 as stated: a string with no colon and no quote yields, without error,
\* one valueless Tag per space-separated token.
C2_NoColonNoQuote ==
  (ListDone /\ ~Contains(input, COLON) /\ ~Contains(input, QUOTE))
    => /\ ret.err.kind = "none"
       /\ ~ret.tags.nil
       /\ ret.tags.list = [n \in 1..Len(Tokens(input, <<>>)) |->
                             BareTag(Tokens(input, <<>>)[n])]

\* C2 amended: a string of name characters and spaces only yields, without
\* error, one Tag per space-separated token, each with empty value and
\* empty parameters.
C2_NamesAndSpaces ==
  (ListDone /\ OnlyNameBytesAndSpaces(input))
    => /\ ret.err.kind = "none"
       /\ ~ret.tags.nil
       /\ ret.tags.list = [n \in 1..Len(Tokens(input, <<>>)) |->
                             BareTag(Tokens(input, <<>>)[n])]

\* C2 witness: two tokens among extra spaces, parsed into two valueless tags.
C2_Witness ==
  /\ ListOk
  /\ OnlyNameBytesAndSpaces(input)
  /\ Len(Tokens(input, <<>>)) = 2
  /\ Len(ret.tags.list) = 2
  /\ input[1] = SP
  /\ \E n \in 1..Len(input) - 1 : input[n] = SP /\ input[n + 1] = SP


\* The scanner's transitions as the specification's section 4.1 lists them:
\* the state after a rune, or "Reject" where the rune has no transition.
RefStep(st, r) ==
  CASE st = StateInitial ->
         IF r = SP THEN StateInitial
         ELSE IF IsNameByte(r) THEN StateReadingName
         ELSE "Reject"
    [] st = StateReadingName ->
         IF IsNameByte(r) THEN StateReadingName
         ELSE IF r = COLON THEN StateExpectValue
         ELSE IF r = SP THEN StateInitial
         ELSE "Reject"
    [] st = StateExpectValue ->
         IF r = SP THEN StateExpectValue
         ELSE IF r = QUOTE THEN StateReadingValue
         ELSE "Reject"
    [] st = StateReadingValue ->
         IF r = QUOTE THEN StateInitial
         ELSE IF r = BSLASH THEN StateReadingEscapedCharacter
         ELSE StateReadingValue
    [] OTHER -> StateReadingValue

\* The run of RefStep over the runes of s from byte offset at on:
\* [rejected, char, pos, state], state being the state at the rejection or
\* at the end of the string.
RECURSIVE RefScanFrom(_, _, _)
RefScanFrom(s, at, st) ==
  IF at >= Len(s) THEN [rejected |-> FALSE, char |-> "", pos |-> 0, state |-> st]
  ELSE LET wide == s[at + 1] = "0xC3"
           r == IF wide THEN EACUTE ELSE s[at + 1]
       IN IF RefStep(st, r) = "Reject"
            THEN [rejected |-> TRUE, char |-> r, pos |-> at, state |-> st]
            ELSE RefScanFrom(s, at + (IF wide THEN 2 ELSE 1), RefStep(st, r))

RefScan(s) == RefScanFrom(s, 0, StateInitial)

Scanned == call = "ParseTagList" /\ pc \in {"scanned", "build", "done"}

\* The longest run of name bytes that ends just before byte offset at.
RECURSIVE NameBefore(_, _)
NameBefore(s, at) ==
  IF at <= 0 \/ ~IsNameByte(s[at]) THEN <<>>
  ELSE Append(NameBefore(s, at - 1), s[at])

\* What each escape letter of a Go string literal stands for.
RefEscape ==
  ("a" :> "0x07") @@ ("b" :> "0x08") @@ ("f" :> "0x0C") @@ ("n" :> "0x0A") @@
  ("r" :> "0x0D") @@ ("t" :> "0x09") @@ ("v" :> "0x0B") @@ (BSLASH :> BSLASH) @@
  (QUOTE :> QUOTE)

\* The text between two quotes is a well-formed string literal body: every
\* backslash starts a known escape, and no bare quote or line feed occurs.
RECURSIVE WellFormedContent(_)
WellFormedContent(s) ==
  IF s = <<>> THEN TRUE
  ELSE IF s[1] = BSLASH
    THEN Len(s) >= 2 /\ s[2] \in DOMAIN RefEscape /\ WellFormedContent(SubSeq(s, 3, Len(s)))
  ELSE s[1] \notin {QUOTE, LF} /\ WellFormedContent(Tail(s))

\* A well-formed body with its escapes resolved.
RECURSIVE ResolveEscapes(_)
ResolveEscapes(s) ==
  IF s = <<>> THEN <<>>
  ELSE IF s[1] = BSLASH /\ Len(s) >= 2
    THEN <<RefEscape[s[2]]>> \o ResolveEscapes(SubSeq(s, 3, Len(s)))
  ELSE <<s[1]>> \o ResolveEscapes(Tail(s))

\* The bytes strictly between the quotes of a position record's value.
ContentOf(p) == SubSeq(input, p.valueStart + 2, p.valueEnd)

\* C3: for a well-formed key:"value" pair the extracted name is the name as
\* written before the colon, the extracted value unquotes without error, and
\* the unquoted value is the text between the quotes with escapes resolved.
C3_RoundTrip ==
  (call = "ParseTagList" /\ pc \in {"build", "done"})
    => /\ \A n \in 1..Len(unquoted) :
            LET p == scanRet.positions.list[n]
            IN p.colon # 0 =>
                 /\ input[p.colon + 1] = COLON
                 /\ input[p.valueStart + 1] = QUOTE
                 /\ input[p.valueEnd + 1] = QUOTE
                 /\ rawTags[n].name = NameBefore(input, p.colon)
                 /\ WellFormedContent(ContentOf(p))
                 /\ unquoted[n] = ResolveEscapes(ContentOf(p))
       /\ (pc = "done" /\ ret.err.kind = "unquote")
            => ~WellFormedContent(ContentOf(scanRet.positions.list[k + 1]))

\* C3 witness: a value holding an escaped quote and a plain byte was
\* extracted and unquoted.
C3_Witness ==
  /\ ListOk
  /\ \E n \in 1..Len(unquoted) :
       /\ scanRet.positions.list[n].colon # 0
       /\ ContentOf(scanRet.positions.list[n]) = <<BSLASH, QUOTE, "b">>
       /\ unquoted[n] = <<QUOTE, "b">>

\* C4: when ParseTagList returns an error its tag list is nil, and when the
\* scanner returns an error its position list is nil.
C4_NoPartialResults ==
  /\ (ListDone /\ ret.err.kind # "none") => (ret.tags.nil /\ ret.tags.list = <<>>)
  /\ (Scanned /\ scanRet.err.kind # "none")
       => (scanRet.positions.nil /\ scanRet.positions.list = <<>>)

\* C4 witness: an unquote error after a well-formed tag had been built.
C4_Witness ==
  /\ ListDone
  /\ ret.err.kind = "unquote"
  /\ Len(tags) > 0
  /\ ret.tags.nil

\* C5: the end of the input is an error exactly when the scanner's final
\* state is ExpectValue, ReadingValue or ReadingEscapedCharacter, and the
\* error names that state; ending in Initial or ReadingName is no error.
C5_EofErrorNamesOpenState ==
  (Scanned /\ scanRet.err.kind # "char")
    => /\ ~RefScan(input).rejected
       /\ state = RefScan(input).state
       /\ IF state \in {StateExpectValue, StateReadingValue, StateReadingEscapedCharacter}
            THEN /\ scanRet.err.kind = "eof"
                 /\ scanRet.err.state = state
                 /\ pc = "done" => (ret.err.kind = "eof" /\ ret.err.state = state)
            ELSE /\ scanRet.err.kind = "none"
                 /\ pc = "done" => ret.err.kind # "eof"
       /\ input = <<"a", COLON>> => scanRet.err.state = StateExpectValue
       /\ input = <<"a", COLON, QUOTE, "b">> => scanRet.err.state = StateReadingValue

\* C5 witness: the input ended right after a backslash inside a value.
C5_Witness ==
  /\ ListDone
  /\ ret.err.kind = "eof"
  /\ ret.err.state = StateReadingEscapedCharacter
  /\ input[Len(input)] = BSLASH

\* C6: the scanner rejects a rune exactly when it is the first rune, left to
\* right, with no transition in the current state; the error carries the
\* rune, its byte offset and that state, which is Initial, ReadingName or
\* ExpectValue.
C6_RejectedCharacter ==
  Scanned
    => /\ (scanRet.err.kind = "char") = RefScan(input).rejected
       /\ scanRet.err.kind = "char"
            => /\ [char |-> scanRet.err.char, pos |-> scanRet.err.pos,
                    state |-> scanRet.err.state, rejected |-> TRUE] = RefScan(input)
               /\ scanRet.err.state \in {StateInitial, StateReadingName, StateExpectValue}
               /\ RuneBytes(scanRet.err.char)
                    = SubSeq(input, scanRet.err.pos + 1,
                             scanRet.err.pos + Len(RuneBytes(scanRet.err.char)))
               /\ pc = "done" => /\ ret.err.char = scanRet.err.char
                                 /\ ret.err.pos = scanRet.err.pos
                                 /\ ret.err.state = scanRet.err.state
       /\ input = <<"a", DOLLAR>>
            => /\ scanRet.err.kind = "char"
               /\ scanRet.err.char = DOLLAR
               /\ scanRet.err.pos = 1
               /\ scanRet.err.state = StateReadingName

\* C6 witness: a rune rejected after a two-byte rune inside an earlier
\* value, so that its byte offset and its rune index differ.
C6_Witness ==
  /\ ListDone
  /\ ret.err.kind = "char"
  /\ ret.err.state = StateInitial
  /\ Contains(input, "0xC3")
  /\ ret.err.pos = Len(input) - 1


\* The offset (1-based) of the first comma of a string, 0 when it has none.
FirstComma(s) ==
  IF \A n \in 1..Len(s) : s[n] # COMMA THEN 0
  ELSE CHOOSE j \in 1..Len(s) : s[j] = COMMA /\ \A m \in 1..(j - 1) : s[m] # COMMA

\* The non-empty comma-separated entries of a string, left to right.
RECURSIVE Entries(_, _)
Entries(s, entry) ==
  IF s = <<>> THEN (IF entry = <<>> THEN <<>> ELSE <<entry>>)
  ELSE IF s[1] # COMMA THEN Entries(Tail(s), Append(entry, s[1]))
  ELSE (IF entry = <<>> THEN <<>> ELSE <<entry>>) \o Entries(Tail(s), <<>>)

\* The parameter entries of a tag value: the non-empty entries after its
\* first comma.
ParameterEntries(v) ==
  IF FirstComma(v) = 0 THEN <<>>
  ELSE Entries(SubSeq(v, FirstComma(v) + 1, Len(v)), <<>>)

\* C7: ParseTag returns no error and a Tag with the given name; its value is
\* the text before the first comma, or the whole input, with no parameters,
\* when there is no comma.
C7_SplitOnFirstComma ==
  TagDone
    => /\ ~ptRet.nil
       /\ ptRet.err.kind = "none"
       /\ ptRet.tag.name = ptName
       /\ IF FirstComma(ptValue) = 0
            THEN ptRet.tag.value = ptValue /\ ptRet.tag.parameters = <<>>
            ELSE ptRet.tag.value = SubSeq(ptValue, 1, FirstComma(ptValue) - 1)

\* C7 witness: a value with two commas, a non-empty text before the first.
C7_Witness ==
  /\ TagDone
  /\ FirstComma(ptValue) = 2
  /\ \E n \in 3..Len(ptValue) : ptValue[n] = COMMA
  /\ ptRet.tag.value = <<ptValue[1]>>
  /\ Len(ptRet.tag.parameters) = 2

\* C8: each parameter is its entry split on the entry's first colon: the
\* name has no colon and name, colon, value spell the entry; an entry with
\* no colon is the name, with an empty value.
C8_SplitOnFirstColon ==
  TagDone
    => \A n \in 1..Len(ptRet.tag.parameters) :
         n <= Len(ParameterEntries(ptValue)) =>
           LET e == ParameterEntries(ptValue)[n]
               q == ptRet.tag.parameters[n]
           IN IF \E m \in 1..Len(e) : e[m] = COLON
                THEN /\ \A m \in 1..Len(q.name) : q.name[m] # COLON
                     /\ e = q.name \o <<COLON>> \o q.value
                ELSE q.name = e /\ q.value = <<>>

\* C8 witness: an entry with two colons; the value keeps the second.
C8_Witness ==
  /\ TagDone
  /\ \E n \in 1..Len(ptRet.tag.parameters) :
       /\ ptRet.tag.parameters[n].name # <<>>
       /\ \E m \in 1..Len(ptRet.tag.parameters[n].value) :
            /\ m > 1
            /\ ptRet.tag.parameters[n].value[m] = COLON

\* The entry a parameter spells when written with a colon.
Spelled(q) == q.name \o <<COLON>> \o q.value

\* C9: the parameters are exactly the non-empty entries after the first
\* comma, in input order: as many parameters as entries, the n-th from the
\* n-th entry; empty entries are dropped and repeated names are kept.
C9_ParametersAreTheEntries ==
  TagDone
    => /\ ptRet.err.kind = "none"
       /\ Len(ptRet.tag.parameters) = Len(ParameterEntries(ptValue))
       /\ \A n \in 1..Len(ptRet.tag.parameters) :
            ParameterEntries(ptValue)[n]
              \in {ptRet.tag.parameters[n].name, Spelled(ptRet.tag.parameters[n])}

\* C9 witness: consecutive commas and a trailing comma in the value, and two
\* parameters of the same name with different values.
C9_Witness ==
  /\ TagDone
  /\ Len(ptValue) > 2
  /\ ptValue[Len(ptValue)] = COMMA
  /\ \E n \in 1..Len(ptValue) - 2 : ptValue[n] = COMMA /\ ptValue[n + 1] = COMMA
  /\ Len(ptRet.tag.parameters) = 2
  /\ ptRet.tag.parameters[1].name # <<>>
  /\ ptRet.tag.parameters[1].name = ptRet.tag.parameters[2].name
  /\ ptRet.tag.parameters[1].value # ptRet.tag.parameters[2].value

\* A string without its last byte when that byte is a colon.
DropTrailingColon(e) ==
  IF e # <<>> /\ e[Len(e)] = COLON THEN SubSeq(e, 1, Len(e) - 1) ELSE e

\* C10: a tag written with no value and a tag written with an empty quoted
\* value both become the Tag with empty value and no parameters, and the
\* entries p: and p both become the Parameter with name p and empty value.
C10_EmptyIsAbsent ==
  /\ (ListDone /\ scanRet.err.kind = "none"
        /\ \A n \in 1..Len(scanRet.positions.list) :
             LET p == scanRet.positions.list[n]
             IN p.colon = 0 \/ ContentOf(p) = <<>>)
       => /\ ret.err.kind = "none"
          /\ ret.tags.list = [n \in 1..Len(scanRet.positions.list) |->
                                BareTag(NameBefore(input,
                                  IF scanRet.positions.list[n].colon = 0
                                    THEN scanRet.positions.list[n].nameEnd + 1
                                    ELSE scanRet.positions.list[n].colon))]
  /\ TagDone
       => /\ Len(ptRet.tag.parameters) = Len(ParameterEntries(ptValue))
          /\ \A n \in 1..Len(ptRet.tag.parameters) :
               LET e == ParameterEntries(ptValue)[n]
               IN (\A m \in 1..Len(DropTrailingColon(e)) : DropTrailingColon(e)[m] # COLON)
                    => ptRet.tag.parameters[n] =
                         [name |-> DropTrailingColon(e), value |-> <<>>]

\* C10 witness: the same name once without a value and once with an empty
\* quoted value, parsed into two equal Tags.
C10_Witness ==
  /\ ListOk
  /\ Len(ret.tags.list) = 2
  /\ scanRet.positions.list[1].colon = 0
  /\ scanRet.positions.list[2].colon # 0
  /\ rawTags[2].value = <<QUOTE, QUOTE>>
  /\ ret.tags.list[1] = ret.tags.list[2]


\* A tag as written: its name, whether a quoted value follows it, and the
\* bytes between the quotes.
RefBlankTag == [name |-> <<>>, quoted |-> FALSE, content |-> <<>>]

\* The tags of a string the scanner accepts, as the transitions of section
\* 4.1 delimit them, left to right.
RECURSIVE RefRawTagsFrom(_, _, _, _, _)
RefRawTagsFrom(s, at, st, cur, found) ==
  IF at >= Len(s)
    THEN IF st = StateReadingName THEN Append(found, cur) ELSE found
  ELSE LET r == IF s[at + 1] = "0xC3" THEN EACUTE ELSE s[at + 1]
           rest == at + Len(RuneBytes(r))
           nx == RefStep(st, r)
       IN CASE st = StateInitial /\ nx = StateReadingName ->
                 RefRawTagsFrom(s, rest, nx, [RefBlankTag EXCEPT !.name = RuneBytes(r)], found)
            [] st = StateReadingName /\ nx = StateReadingName ->
                 RefRawTagsFrom(s, rest, nx, [cur EXCEPT !.name = @ \o RuneBytes(r)], found)
            [] st = StateReadingName /\ nx = StateInitial ->
                 RefRawTagsFrom(s, rest, nx, RefBlankTag, Append(found, cur))
            [] st = StateExpectValue /\ nx = StateReadingValue ->
                 RefRawTagsFrom(s, rest, nx, [cur EXCEPT !.quoted = TRUE], found)
            [] st = StateReadingValue /\ nx = StateInitial ->
                 RefRawTagsFrom(s, rest, nx, RefBlankTag, Append(found, cur))
            [] st = StateReadingValue /\ nx # StateInitial ->
                 RefRawTagsFrom(s, rest, nx, [cur EXCEPT !.content = @ \o RuneBytes(r)], found)
            [] st = StateReadingEscapedCharacter ->
                 RefRawTagsFrom(s, rest, nx, [cur EXCEPT !.content = @ \o RuneBytes(r)], found)
            [] OTHER -> RefRawTagsFrom(s, rest, nx, cur, found)

RefRawTags(s) == RefRawTagsFrom(s, 0, StateInitial, RefBlankTag, <<>>)

\* The offset (1-based) of the first colon of a string, 0 when it has none.
FirstColon(s) ==
  IF \A n \in 1..Len(s) : s[n] # COLON THEN 0
  ELSE CHOOSE j \in 1..Len(s) : s[j] = COLON /\ \A m \in 1..(j - 1) : s[m] # COLON

\* The Parameter an entry stands for (section 4.4).
RefParameter(e) ==
  IF FirstColon(e) = 0 THEN [name |-> e, value |-> <<>>]
  ELSE [name |-> SubSeq(e, 1, FirstColon(e) - 1),
        value |-> SubSeq(e, FirstColon(e) + 1, Len(e))]

\* The Tag a name and an unquoted value stand for (section 4.4).
RefTag(name, v) ==
  [name |-> name,
   value |-> IF FirstComma(v) = 0 THEN v ELSE SubSeq(v, 1, FirstComma(v) - 1),
   parameters |-> [n \in 1..Len(ParameterEntries(v)) |-> RefParameter(ParameterEntries(v)[n])]]

\* What a call returns, without the wording of its error.
Outcome(isNil, list, e) ==
  [nil |-> isNil, tags |-> list, kind |-> e.kind, char |-> e.char, pos |-> e.pos,
   state |-> e.state, tag |-> e.tag]

\* What ParseTagList returns for a string, by sections 4.1 to 4.5: the
\* first rune without a transition, the open state at the end of the
\* string, the leftmost value that is no string literal, or the tags.
RefParseTagList(s) ==
  LET r == RefScan(s)
      raw == RefRawTags(s)
      bad == {n \in 1..Len(raw) : raw[n].quoted /\ ~WellFormedContent(raw[n].content)}
  IN IF r.rejected
       THEN Outcome(TRUE, <<>>, [NoError EXCEPT !.kind = "char", !.char = r.char,
                                                !.pos = r.pos, !.state = r.state])
     ELSE IF r.state \notin {StateInitial, StateReadingName}
       THEN Outcome(TRUE, <<>>, [NoError EXCEPT !.kind = "eof", !.state = r.state])
     ELSE IF bad # {}
       THEN Outcome(TRUE, <<>>,
              [NoError EXCEPT !.kind = "unquote",
                              !.tag = raw[CHOOSE n \in bad : \A m \in bad : n <= m].name])
     ELSE Outcome(FALSE,
            [n \in 1..Len(raw) |-> RefTag(raw[n].name, ResolveEscapes(raw[n].content))],
            NoError)

\* What ParseTag returns for a name and a value.
RefParseTag(name, v) == Outcome(FALSE, <<RefTag(name, v)>>, NoError)

\* What a finished call returned, and what it returns when it runs alone.
Returned(f) ==
  IF f.call = "ParseTagList" THEN Outcome(f.ret.tags.nil, f.ret.tags.list, f.ret.err)
  ELSE Outcome(f.ptRet.nil, IF f.ptRet.nil THEN <<>> ELSE <<f.ptRet.tag>>, f.ptRet.err)

Isolated(f) ==
  IF f.call = "ParseTagList" THEN RefParseTagList(f.input)
  ELSE RefParseTag(f.ptName, f.ptValue)

\* C11: parsing is stateless and deterministic: a call of ParseTagList or
\* ParseTag, run after another call or interleaved with another call at
\* any step, on the same or a different input, returns what its arguments
\* alone determine, which is the result of a single isolated call.
C11_CallsDoNotInterfere ==
  /\ pc = "done" => Returned(Frame) = Isolated(Frame)
  /\ other.pc = "done" => Returned(other) = Isolated(other)

\* C11 witness: two calls of ParseTagList on different strings were in
\* progress together and both have returned, one two tags and one an error.
C11_Witness ==
  /\ pc = "done" /\ other.pc = "done"
  /\ call = "ParseTagList" /\ other.call = "ParseTagList"
  /\ input # other.input
  /\ ret.err.kind = "none" /\ Len(ret.tags.list) = 2
  /\ other.ret.err.kind = "eof"


\* The index of the first entry of a list with a name, 0 when there is none.
FirstNamed(l, name) ==
  IF \A n \in 1..Len(l) : l[n].name # name THEN 0
  ELSE CHOOSE n \in 1..Len(l) : l[n].name = name /\ \A m \in 1..(n - 1) : l[m].name # name

\* C12: lookup by name is first-match: Field.Tag (TagList.Get),
\* StructDescription.Field (FieldList.Get) and Tag.Parameter
\* (ParameterList.Get) return the first entry, in list order, whose name is
\* the argument, never a later entry of the same name, and nil when no
\* entry has that name.
C12_GetIsFirstMatch ==
  acc.op \in {"Field", "Tag", "Parameter"}
    => IF FirstNamed(acc.recv, acc.name) = 0
         THEN acc.result.nil
         ELSE /\ ~acc.result.nil
              /\ acc.result.val = acc.recv[FirstNamed(acc.recv, acc.name)]

\* C12 witness: Field.Tag returned the first of two tags of the name asked
\* for, which differ in their values.
C12_Witness ==
  /\ acc.op = "Tag"
  /\ ~acc.result.nil
  /\ \E n \in 1..Len(acc.recv) :
       /\ n > FirstNamed(acc.recv, acc.name)
       /\ acc.recv[n].name = acc.name
       /\ acc.recv[n] # acc.result.val

\* The entries of a list at the indices of a set, in list order.
RECURSIVE Keep(_, _)
Keep(l, S) ==
  IF l = <<>> THEN <<>>
  ELSE (IF 1 \in S THEN <<Head(l)>> ELSE <<>>) \o Keep(Tail(l), {n - 1 : n \in S \ {1}})

\* C13: TagList.WithName(name) returns every tag of that name and no other
\* tag, in their original relative order.
C13_WithNameKeepsAllOfTheName ==
  acc.op = "WithName"
    => /\ ~acc.result.nil
       /\ acc.result.list = Keep(acc.recv, {n \in 1..Len(acc.recv) : acc.recv[n].name = acc.name})

\* C13 witness: WithName returned two different tags out of three.
C13_Witness ==
  /\ acc.op = "WithName"
  /\ Len(acc.recv) = 3
  /\ Len(acc.result.list) = 2
  /\ acc.result.list[1] # acc.result.list[2]

\* The indices of the fields that carry a tag of a name.
Tagged(l, name) ==
  {n \in 1..Len(l) : \E m \in 1..Len(l[n].tags.list) : l[n].tags.list[m].name = name}

\* C14: WithTag(name) and WithoutTag(name) partition the field list: a field
\* is in WithTag, once, exactly when one of its tags has that name, however
\* many of them have it, and in WithoutTag, once, otherwise; both keep the
\* original order.
C14_WithTagPartitions ==
  /\ acc.op = "WithTag"
       => /\ acc.result = List(Keep(acc.recv, Tagged(acc.recv, acc.name)))
          /\ FieldListWithoutTag(acc.recv, acc.name)
               = List(Keep(acc.recv, (1..Len(acc.recv)) \ Tagged(acc.recv, acc.name)))
  /\ acc.op = "WithoutTag"
       => /\ acc.result
               = List(Keep(acc.recv, (1..Len(acc.recv)) \ Tagged(acc.recv, acc.name)))
          /\ FieldListWithTag(acc.recv, acc.name)
               = List(Keep(acc.recv, Tagged(acc.recv, acc.name)))

\* C14 witness: WithTag kept, once, a field that carries the name twice and
\* left out the other field.
C14_Witness ==
  /\ acc.op = "WithTag"
  /\ Len(acc.recv) = 2
  /\ Len(acc.result.list) = 1
  /\ Cardinality({m \in 1..Len(acc.result.list[1].tags.list) :
                    acc.result.list[1].tags.list[m].name = acc.name}) = 2

\* The indices of the fields that carry a tag of a name and a primary value.
TaggedWithValue(l, name, value) ==
  {n \in 1..Len(l) : \E m \in 1..Len(l[n].tags.list) :
     l[n].tags.list[m].name = name /\ l[n].tags.list[m].value = value}

\* C15: WithTagValue(name, value) holds a field exactly when one of its
\* tags, the first of that name or a later one, has both the name and the
\* primary value; WithoutTagValue holds exactly the other fields; both keep
\* the original order and hold a field at most once.
C15_WithTagValuePartitions ==
  /\ acc.op = "WithTagValue"
       => acc.result = List(Keep(acc.recv, TaggedWithValue(acc.recv, acc.name, acc.value)))
  /\ acc.op = "WithoutTagValue"
       => acc.result = List(Keep(acc.recv, (1..Len(acc.recv))
                                             \ TaggedWithValue(acc.recv, acc.name, acc.value)))

\* C15 witness: WithTagValue kept a field whose first tag of the name has
\* another value and whose later tag of the name has the value asked for.
C15_Witness ==
  /\ acc.op = "WithTagValue"
  /\ Len(acc.recv) = 2
  /\ Len(acc.result.list) = 1
  /\ LET tl == acc.result.list[1].tags.list
     IN /\ tl[FirstNamed(tl, acc.name)].value # acc.value
        /\ \E m \in 1..Len(tl) : tl[m].name = acc.name /\ tl[m].value = acc.value


\* The type is a struct or a pointer to a struct, and the struct it is.
IsStructOrPointerToStruct(t) ==
  t.kind = "Struct" \/ (t.kind = "Ptr" /\ t.elem[1].kind = "Struct")

StructOf(t) == IF t.kind = "Ptr" THEN t.elem[1] ELSE t

\* Every annotation string of a struct's fields parses.
AnnotationsParse(t) ==
  \A n \in 1..Len(t.fields) : RefParseTagList(t.fields[n].tag).kind = "none"

C17_FieldsInDeclarationOrder ==
  (gdRet.called /\ ~gdRet.nil)
    => /\ ~gdRet.desc.fields.nil
       /\ Len(gdRet.desc.fields.list) = Len(StructOf(typ).fields)
       /\ \A n \in 1..Len(gdRet.desc.fields.list) :
            LET f == gdRet.desc.fields.list[n]
                declared == StructOf(typ).fields[n]
            IN /\ f.name = declared.name
               /\ f.index = <<n - 1>>
               /\ ~f.tags.nil
               /\ Outcome(FALSE, f.tags.list, NoError) = RefParseTagList(declared.tag)
               /\ declared.tag = <<>> => f.tags.list = <<>>

\* C17 witness: a description of two fields, the first with three tags and
\* the second with no annotation and an empty tag list.
C17_Witness ==
  /\ gdRet.called /\ ~gdRet.nil
  /\ Len(gdRet.desc.fields.list) = 2
  /\ Len(gdRet.desc.fields.list[1].tags.list) = 3
  /\ StructOf(typ).fields[2].tag = <<>>
  /\ gdRet.desc.fields.list[2].tags = List(<<>>)

\* An error without its outermost context.
Cause(e) == [e EXCEPT !.wrap = Tail(@)]

\* C18: GetDescriptionFromType on a type and GetDescription on a value of
\* that type have the same outcome: descriptions with the same name, fields
\* and tags, or a nil description each, with the same error underneath the
\* function's own context.
C18_FromTypeIsTheSame ==
  (gdRet.called /\ gdtRet.called)
    => /\ gdtRet.nil = gdRet.nil
       /\ gdtRet.desc = gdRet.desc
       /\ gdtRet.err.kind = gdRet.err.kind
       /\ gdRet.err.kind # "none" => Cause(gdtRet.err) = Cause(gdRet.err)

\* C18 witness: both were called on a pointer to a struct with a tagged
\* field and returned a description.
C18_Witness ==
  /\ gdRet.called /\ gdtRet.called
  /\ typ.kind = "Ptr"
  /\ ~gdtRet.nil
  /\ Len(gdtRet.desc.fields.list) = 2
  /\ Len(gdtRet.desc.fields.list[2].tags.list) = 2


\* A string-literal body has a backslash followed by a byte that is no
\* escape letter.
RECURSIVE HasUnknownEscape(_)
HasUnknownEscape(s) ==
  IF s = <<>> THEN FALSE
  ELSE IF s[1] = BSLASH
    THEN Len(s) < 2 \/ s[2] \notin DOMAIN RefEscape \/ HasUnknownEscape(SubSeq(s, 3, Len(s)))
  ELSE HasUnknownEscape(Tail(s))

\* The indices of the position records whose quoted value is no string
\* literal.
Rejected(l) == {n \in 1..Len(l) : l[n].colon # 0 /\ ~WellFormedContent(ContentOf(l[n]))}

RECURSIVE BackslashRun(_, _, _)
BackslashRun(s, at, lo) ==
  IF at - 1 > lo /\ s[at] = BSLASH THEN 1 + BackslashRun(s, at - 1, lo) ELSE 0

\* The byte at offset at is a quote after an even number of backslashes.
ClosesValue(s, lo, at) == s[at + 1] = QUOTE /\ BackslashRun(s, at, lo) % 2 = 0

\* C20: inside a quoted value the character after a backslash is part of
\* the value, closes nothing and starts no escape: the value ends at the
\* first quote after an even number (zero too) of consecutive backslashes,
\* and it is open, in ReadingEscapedCharacter after an odd number of
\* backslashes and in ReadingValue otherwise, as long as there is none.
C20_ValueEndsAtUnescapedQuote ==
  call = "ParseTagList"
    => /\ \A n \in 1..Len(positions) :
            LET p == positions[n]
            IN p.colon # 0 =>
                 /\ p.valueEnd > p.valueStart
                 /\ ClosesValue(input, p.valueStart, p.valueEnd)
                 /\ \A j \in (p.valueStart + 1)..(p.valueEnd - 1) :
                      ~ClosesValue(input, p.valueStart, j)
       /\ (pc = "range" /\ state \in {StateReadingValue, StateReadingEscapedCharacter})
            => /\ \A j \in (current.valueStart + 1)..(Len(input) - 1) :
                    ~ClosesValue(input, current.valueStart, j)
               /\ (state = StateReadingEscapedCharacter)
                    = (BackslashRun(input, Len(input), current.valueStart) % 2 = 1)

\* C20 witness: a value that holds an escaped backslash was closed by the
\* quote after the two backslashes.
C20_Witness ==
  /\ ListOk
  /\ \E n \in 1..Len(positions) :
       /\ positions[n].colon # 0
       /\ ContentOf(positions[n]) = <<BSLASH, BSLASH>>


(***************************************************************************)
(* The position records.                                                   *)
(***************************************************************************)
\* The input has a colon right after the name of the record.
ColonFollowsName(p, s) == p.nameEnd + 1 < Len(s) /\ s[p.nameEnd + 2] = COLON

\* C21: in every position record the scanner emits, the colon offset is 0
\* exactly when the tag has no quoted value, that is when no colon follows
\* its name, and then valueStart and valueEnd are 0 too and the value
\* extracted is empty; a colon offset that is not 0 is the offset of a colon
\* that a name of at least one byte precedes, and the value extracted is not
\* empty.
C21_ZeroColonMeansNoValue ==
  call = "ParseTagList" =>
    \A n \in 1..Len(positions) :
      LET p == positions[n]
      IN /\ p.colon = 0 <=> ~ColonFollowsName(p, input)
         /\ p.colon = 0 => p.valueStart = 0 /\ p.valueEnd = 0 /\ getValue(p, input) = <<>>
         /\ p.colon # 0 =>
              /\ p.colon >= 1
              /\ p.nameStart < p.colon
              /\ input[p.colon + 1] = COLON
              /\ IsNameByte(input[p.colon])
              /\ getValue(p, input) # <<>>

C21_Witness ==
  /\ ListOk
  /\ Len(positions) = 2
  /\ positions[1].colon = 1 /\ positions[1].valueEnd > positions[1].valueStart
  /\ positions[2].colon = 0

(***************************************************************************)
(* Termination of the scan.                                                *)
(***************************************************************************)
\* The runes of a string: its bytes less the second bytes of encodings.
Runes(s) == Cardinality({n \in 1..Len(s) : s[n] # "0xA9"})

\* C22: a call of ParseTagList on a finite string returns, the scanner
\* reads the string left to right (the offset of the range loop never goes
\* back), and control reaches the label start at most twice for each
\* character read, so at most twice the length of the input in all.
C22_ScanTerminatesInOnePass ==
  /\ [][/\ i' >= i
        /\ call' = "ParseTagList" => dispatches' <= 2 * Runes(input')]_vars
  /\ <>(pc = "scanned")

\* A name that a space ends: both of its characters' second dispatches
\* happened, and the call has returned.
C22_Witness ==
  /\ pc = "scanned" /\ scanRet.err.kind = "none"
  /\ input = <<"a", SP, "b", SP>>
  /\ dispatches = 2 * Len(input)

(***************************************************************************)
(* The shape of the position records.                                      *)
(***************************************************************************)
\* The last offset of a record: its closing quote, or the end of its name.
LastOffset(p) == IF p.colon # 0 THEN p.valueEnd ELSE p.nameEnd

\* The record lies in s as a tag does: a run of name bytes and, for a
\* valued tag, the colon right after it, spaces, and a value in quotes.
WellFormedPosition(p, s) ==
  /\ 0 <= p.nameStart /\ p.nameStart <= p.nameEnd /\ p.nameEnd < Len(s)
  /\ \A o \in p.nameStart..p.nameEnd : IsNameByte(s[o + 1])
  /\ p.colon # 0 =>
       /\ p.colon = p.nameEnd + 1
       /\ p.colon < p.valueStart /\ p.valueStart < p.valueEnd /\ p.valueEnd < Len(s)
       /\ s[p.colon + 1] = COLON
       /\ \A o \in p.colon + 1..p.valueStart - 1 : s[o + 1] = SP
       /\ s[p.valueStart + 1] = QUOTE
       /\ s[p.valueEnd + 1] = QUOTE

\* C23: the position records a successful scan returns are well formed,
\* each lies in the input as a tag does, and each starts after the last
\* offset of the record before it.
C23_PositionsWellFormed ==
  (Scanned /\ scanRet.err.kind = "none") =>
    LET l == scanRet.positions.list
    IN /\ ~scanRet.positions.nil
       /\ \A n \in 1..Len(l) : WellFormedPosition(l[n], input)
       /\ \A n \in 2..Len(l) : l[n].nameStart > LastOffset(l[n - 1])

\* Two records: a valued tag with a space before its value, and a tag right
\* after the closing quote.
C23_Witness ==
  /\ Scanned /\ scanRet.err.kind = "none"
  /\ Len(scanRet.positions.list) = 2
  /\ scanRet.positions.list[1].valueStart > scanRet.positions.list[1].colon + 1
  /\ scanRet.positions.list[2].nameStart = scanRet.positions.list[1].valueEnd + 1

(***************************************************************************)
(* The record in progress.                                                 *)
(***************************************************************************)
\* C24: whenever the scanner is in state Initial the record in progress is
\* the zero record, so nothing of an emitted tag is left for the next one: a
\* valueless tag that follows a valued tag is emitted with colon, valueStart
\* and valueEnd 0, and its value is empty.
C24_InitialMeansZeroRecord ==
  call = "ParseTagList" =>
    /\ state = StateInitial => current = ZeroPosition
    /\ \A n \in 2..Len(positions) :
         (positions[n - 1].colon # 0 /\ ~ColonFollowsName(positions[n], input)) =>
           /\ positions[n].colon = 0
           /\ positions[n].valueStart = 0
           /\ positions[n].valueEnd = 0
           /\ getValue(positions[n], input) = <<>>
    /\ (ListOk /\ Len(positions) = Len(ret.tags.list)) =>
         \A n \in 2..Len(positions) :
           (positions[n - 1].colon # 0 /\ ~ColonFollowsName(positions[n], input)) =>
             ret.tags.list[n].value = <<>>

\* The call returned a valued tag with a value that is not empty and, after
\* it, a valueless tag.
C24_Witness ==
  /\ ListOk
  /\ Len(positions) = 2
  /\ positions[1].colon # 0 /\ positions[2].colon = 0
  /\ ret.tags.list[1].value # <<>>
  /\ ret.tags.list[2].value = <<>>

(***************************************************************************)
(* Scanner errors come before unquote errors.                              *)
(***************************************************************************)
\* The scanner of the specification accepts the whole string.
RefAccepts(s) ==
  LET r == RefScan(s)
  IN ~r.rejected /\ r.state \in {StateInitial, StateReadingName}

\* C25: ParseTagList unquotes no value before the scanner has accepted the
\* whole string.  When the scanner fails, the error returned is the
\* scanner's, also when a value emitted before the failure is one the
\* unquoter rejects; an unquote error is returned only when the scanner
\* accepted the whole string, and it is the error of the leftmost rejected
\* value, the values to its left having been unquoted and none to its right;
\* getTags on the string written twice, where every rejected value has a
\* second one to its right, names the same tag.
C25_ScanErrorsFirst ==
  call = "ParseTagList" =>
    /\ (pc = "build" \/ unquoted # <<>>) =>
         /\ scanRet.err.kind = "none"
         /\ RefAccepts(input)
         /\ scanRet.positions.list = positions
    /\ (ListDone /\ ~RefAccepts(input)) =>
         /\ ret.err.kind \in {"char", "eof"}
         /\ ret.err = Wrap("ParseTagList: could not parse struct tags", scanRet.err)
         /\ unquoted = <<>>
    /\ (ListDone /\ ret.err.kind = "unquote") =>
         /\ RefAccepts(input)
         /\ Rejected(positions) # {}
         /\ LET first == CHOOSE n \in Rejected(positions) :
                           \A m \in Rejected(positions) : n <= m
            IN /\ ret.err.tag = getName(positions[first], input)
               /\ Len(unquoted) = first - 1
               /\ LET twice == getTags(input \o <<SP>> \o input)
                  IN /\ twice.tags.nil
                     /\ twice.err.kind = "unquote"
                     /\ twice.err.tag = ret.err.tag

\* A value the unquoter rejects is followed, later in the string, by a
\* character the scanner rejects, and the call returned the scanner's error.
C25_Witness ==
  /\ ListDone
  /\ ret.err.kind = "char"
  /\ Rejected(positions) # {}
  /\ ret.err.pos > positions[1].valueEnd

(***************************************************************************)
(* What ends a tag.                                                        *)
(***************************************************************************)
\* C26: the closing quote of a value takes the scanner back to Initial,
\* where a name character starts the next tag at once: no name character is
\* ever rejected in Initial, and a name character right after a closing
\* quote starts the next record (emitted, or still in progress) at that
\* offset.  The name of a valueless tag ends only before a space or at the
\* end of the input, the name of a valued tag only before a colon, and a
\* character rejected in ReadingName is none of these.
C26_NoSpaceNeededAfterValue ==
  call = "ParseTagList" =>
    /\ \A n \in 1..Len(positions) :
         LET p == positions[n]
         IN /\ (p.colon # 0 /\ (pc # "start" \/ i > p.valueEnd + 1)
                  /\ p.valueEnd + 1 < Len(input) /\ IsNameByte(input[p.valueEnd + 2])) =>
                 IF n < Len(positions)
                   THEN positions[n + 1].nameStart = p.valueEnd + 1
                   ELSE state # StateInitial /\ current.nameStart = p.valueEnd + 1
            /\ p.colon = 0 =>
                 p.nameEnd + 1 = Len(input) \/ input[p.nameEnd + 2] = SP
            /\ p.colon # 0 => input[p.nameEnd + 2] = COLON
    /\ (Scanned /\ scanRet.err.kind = "char") =>
         /\ scanRet.err.state = StateInitial => ~IsNameByte(scanRet.err.char)
         /\ scanRet.err.state = StateReadingName =>
              /\ scanRet.err.char \notin {SP, COLON}
              /\ ~IsNameByte(scanRet.err.char)
    /\ ListOk => Len(ret.tags.list) = Len(positions)

\* Two tags were returned for a string in which the second name starts
\* right after the closing quote of the first tag's value.
C26_Witness ==
  /\ ListOk
  /\ Len(ret.tags.list) = 2
  /\ positions[1].colon # 0
  /\ positions[2].nameStart = positions[1].valueEnd + 1
  /\ \A n \in 1..Len(input) : input[n] # SP

(***************************************************************************)
(* A field whose annotation string does not parse.                         *)
(***************************************************************************)
\* The fields of a struct type whose annotation string does not parse.
FailingFields(t) ==
  {n \in 1..Len(t.fields) : RefParseTagList(t.fields[n].tag).kind # "none"}

\* C27: when the annotation string of a field of the struct does not parse,
\* GetDescription returns a nil description, with no field of the struct in
\* it, and an error that names the first such field in declaration order
\* and wraps, under the contexts of GetDescription, getDescriptionFromType
\* and getFields, the parser's error for that field's annotation string.
C27_OneBadFieldAbortsAll ==
  (gdRet.called /\ IsStructOrPointerToStruct(typ) /\ FailingFields(StructOf(typ)) # {})
    => LET fs == StructOf(typ).fields
           failing == CHOOSE n \in FailingFields(StructOf(typ)) :
                        \A m \in FailingFields(StructOf(typ)) : n <= m
       IN /\ gdRet.nil
          /\ gdRet.desc = NoDescription
          /\ gdRet.desc.fields.nil
          /\ gdRet.err.field = fs[failing].name
          /\ Len(gdRet.err.wrap) > 3
          /\ SubSeq(gdRet.err.wrap, 1, 3) =
               << "reflectutil.GetDescription: could not get description",
                  "reflectutil.getDescriptionFromType: could not get field descriptions",
                  "reflectutil.getFields: could not get tags for field" >>
          /\ Outcome(TRUE, <<>>, gdRet.err) = RefParseTagList(fs[failing].tag)

\* The first field's annotation string parses to tags, the second's does
\* not, and GetDescription returned no description and an error that names
\* the second field.
C27_Witness ==
  /\ gdRet.called /\ gdRet.nil
  /\ IsStructOrPointerToStruct(typ)
  /\ Len(StructOf(typ).fields) = 2
  /\ FailingFields(StructOf(typ)) = {2}
  /\ RefParseTagList(StructOf(typ).fields[1].tag).tags # <<>>
  /\ gdRet.err.field = StructOf(typ).fields[2].name
  /\ gdRet.err.kind = "unquote"

(***************************************************************************)
(* The two pipelines.                                                      *)
(***************************************************************************)
\* An error without the texts of its contexts.
Bare(e) == [e EXCEPT !.wrap = <<>>]

\* The loop of parseTags over a string without the switch on the final
\* state: the state, the record in progress and the records emitted when
\* the string is read, or the rune no case took.
RECURSIVE parseTagsRun(_, _, _, _, _)
parseTagsRun(tag, at, st, cur, emitted) ==
  IF at >= Len(tag)
    THEN [unexpected |-> FALSE, at |-> at, st |-> st, cur |-> cur, emitted |-> emitted]
  ELSE LET r == parseTagsSwitch(tag, at, st, cur, emitted)
       IN IF r.unexpected THEN r
          ELSE parseTagsRun(tag, r.at, r.st, r.cur, r.emitted)

\* Where parseTagPositionList is.
Here == [st |-> state, cur |-> current, emitted |-> positions]

\* Where parseTags is after the first n bytes of the input.
There(n) ==
  LET r == parseTagsRun(Slice(input, 0, n), 0, parseTagsStateInitial, ZeroPosition, <<>>)
  IN [st |-> r.st, cur |-> r.cur, emitted |-> r.emitted]

\* parseTagPositionList is where parseTags is on the same string: between
\* two runes after the bytes read, and at the label start either before the
\* rune at offset i or after the goto start that the switch of parseTags
\* takes on that rune.
SameStep ==
  /\ (call = "ParseTagList" /\ pc = "range") => Here = There(Len(input))
  /\ (call = "ParseTagList" /\ pc = "start") =>
       \/ Here = There(i)
       \/ LET r == parseTagsSwitch(input, i, There(i).st, There(i).cur, There(i).emitted)
          IN /\ ~r.unexpected /\ r.at = i
             /\ Here = [st |-> r.st, cur |-> r.cur, emitted |-> r.emitted]

\* What the call of the one pipeline returned is what the other returns for
\* the same argument: the same records from the scanners, equal tag lists,
\* or errors of the same kind at the same character and offset, in the same
\* state, for the same tag and under as many contexts.
SameResult ==
  /\ (call = "ParseTagList" /\ pc = "scanned") =>
       LET r == parseTags(input)
       IN /\ scanRet.positions = r.positions
          /\ Bare(scanRet.err) = Bare(r.err)
          /\ Len(scanRet.err.wrap) = Len(r.err.wrap)
  /\ ListDone =>
       LET r == getTags(input)
       IN /\ ret.tags = r.tags
          /\ Bare(ret.err) = Bare(r.err)
          /\ Len(ret.err.wrap) = Len(r.err.wrap)
  /\ TagDone =>
       LET r == parseTag(ptName, ptValue)
       IN /\ ptRet.nil = r.nil
          /\ ptRet.tag = r.tag
          /\ Bare(ptRet.err) = Bare(r.err)

\* C28: the pipeline of getTags, parseTag and parseTags and the pipeline of
\* ParseTagList, ParseTag and parseTagPositionList are equivalent: on every
\* string the scanners take the same steps through the same states with the
\* same records, and the calls return equal tag lists, or errors at the same
\* offset and in the same state.
C28_PipelinesAgree == SameStep /\ SameResult

\* ParseTagList returned two tags, the first with a parameter, and getTags
\* returns the same two for the string.
C28_Witness ==
  /\ ListOk
  /\ Len(ret.tags.list) = 2
  /\ ret.tags.list[1].parameters # <<>>
  /\ getTags(input).tags = ret.tags
=============================================================================
